---------------------------- MODULE Spec2Model ----------------------------
(***************************************************************************)
(* Model of the publication reconciliation scripts under src/src/scripts:  *)
(*   tryout.py                (Scholar -> BibTeX pipeline, Spec)           *)
(*   test.py                  (Scholar-free exporter, SpecTest)            *)
(*   check_file.py            (raw exporter; its unique_id, SpecKey)       *)
(*   update_publications_ts.py (TS exporter, SpecUpdate)                   *)
(* plus the pure helpers merge_patch / build_entry_keep_all_fields         *)
(* (SpecMerge).                                                            *)
(*                                                                         *)
(* Python strings that the code inspects are sequences of tokens: a token  *)
(* is one character (" ", "a", ".") or a chunk the code never looks into   *)
(* ("10.1145/", "https://doi.org/").  Citekeys handed to unique_id are     *)
(* TLA+ strings, concatenated with \o as f"{base}{i}" does.                *)
(***************************************************************************)
EXTENDS Integers, Sequences, FiniteSets, TLC

VARIABLES
    \* ---- tryout.py main ----
    pubs,       \* author["publications"], each as scholarly.fill left it
    idx,        \* index of the publication the loop is at (1-based)
    pc,         \* where main is: "start" at the loop head, the name of the
                \* network call it is waiting on, "write", "done"
    cur,        \* main's locals for the publication being processed
    entries,    \* the output collection
    sleeps,     \* number of time.sleep(1.0) calls so far
    outfile,    \* the records written to OUT_BIB_PATH, None before
    \* ---- citekey registry (test.py / check_file.py unique_id) ----
    impl,       \* which script's unique_id the run uses: "test" | "check_file"
    used,       \* used_ids: the run's citekey registry
    bases,      \* the bases handed to unique_id so far, in call order
    keys,       \* the keys unique_id returned, in call order
    prevUsed,   \* the registry as it was before the latest call
    \* ---- merge_patch / build_entry_keep_all_fields calls ----
    m_op,       \* "merge_patch" | "build"
    m_pc,       \* "call" before the function ran, "done" after
    m_entry,    \* merge_patch: the entry dict before the call
    m_patch,    \* merge_patch: the patch, a list of <<key, value>> in dict order
    m_over,     \* merge_patch: the overwrite flag
    m_bib,      \* build: the BibTeX text handed in
    m_fb,       \* build: the fallbacks (title, venue, year, link, abstract)
    m_out,      \* the entry after the call
    \* ---- test.py main ----
    t_records,  \* RECORDS
    t_i,        \* number of records the loop has been through
    t_pc,       \* "start", "loop", "done", or "exit" after SystemExit
    t_entries,  \* the output collection
    t_used,     \* used_ids
    t_sleeps,   \* number of time.sleep(SLEEP_SEC) calls so far
    t_log,      \* per record: the sources asked and how entry_from_record ended
    t_file,     \* the entries written to OUT_BIB, None before
    \* ---- update_publications_ts.py main ----
    u_pubs,     \* author["publications"], each as scholarly.fill left it
    u_i,        \* number of publications the loop has been through
    u_pc,       \* "start" at the loop head, the request main waits on,
                \* "done", or "aborted" after an uncaught exception
    u_cur,      \* main's locals for the publication being processed
    u_title,    \* the local variable title: None while unassigned
    u_out,      \* the list pubs of records collected
    u_sleeps,   \* number of time.sleep(1.0) calls so far
    u_file,     \* the records written to OUT_PATH, None before
    u_later,    \* a later run of main on the file: its year, how the
                \* migration ended and the static file, NoLater before
    \* ---- one call of a pure function of tryout.py ----
    f_op,       \* the function called
    f_in,       \* its arguments
    f_pc,       \* "call" before the call, "done" after it
    f_out,      \* its return value, None before
    \* ---- a program run twice on the same input and answers ----
    run,        \* 0 for a single run; 1 and 2 for the first and second run
    run1,       \* what the first run left behind and the answers it got
    answers     \* the answers of the sources to this run's requests, in order

keyVars   == <<impl, used, bases, keys, prevUsed>>
mergeVars == <<m_op, m_pc, m_entry, m_patch, m_over, m_bib, m_fb, m_out>>
mainVars  == <<pubs, idx, pc, cur, entries, sleeps, outfile>>
testVars  == <<t_records, t_i, t_pc, t_entries, t_used, t_sleeps, t_log, t_file>>
updVars   == <<u_pubs, u_i, u_pc, u_cur, u_title, u_out, u_sleeps, u_file, u_later>>
fnVars    == <<f_op, f_in, f_pc, f_out>>
rerunVars == <<run, run1, answers>>
vars      == <<mainVars, keyVars, mergeVars, testVars, updVars, fnVars, rerunVars>>

-----------------------------------------------------------------------------
(* Python string helpers on token sequences *)

\* Python's "" as a token sequence
EmptyStr == <<>>

\* Python's None where a dict value may be None
None == <<"<None>">>

\* no later run of update_publications_ts.main has been started
NoLater == [now_year |-> 0, outcome |-> "none", static |-> None]

\* characters matched by \s and removed by str.strip()
Whitespace == {" ", "\n"}

RECURSIVE lstrip(_)
lstrip(s) == IF s # <<>> /\ Head(s) \in Whitespace THEN lstrip(Tail(s)) ELSE s

RECURSIVE rstrip(_)
rstrip(s) ==
    IF s # <<>> /\ s[Len(s)] \in Whitespace THEN rstrip(SubSeq(s, 1, Len(s) - 1)) ELSE s

\* str.strip()
strip(s) == rstrip(lstrip(s))

\* dict.get(k) or "" : the value, "" when the key is absent (or the value None)
Get(entry, k) ==
    IF k \in DOMAIN entry /\ entry[k] # None THEN entry[k] ELSE EmptyStr

\* entry[k] = v
Put(entry, k, v) == [x \in (DOMAIN entry) \cup {k} |-> IF x = k THEN v ELSE entry[x]]

\* the empty dict {}
EmptyDict == [x \in {} |-> EmptyStr]

\* str.lower() on a field name
LowerKey(k) ==
    CASE k = "Title" -> "title"
      [] k = "URL" -> "url"
      [] k = "Journal" -> "journal"
      [] k = "DOI" -> "doi"
      [] OTHER -> k


\* str.lower() on a token
LowerTok(c) ==
    CASE c = "A" -> "a"
      [] c = "B" -> "b"
      [] c = "D" -> "d"
      [] c = "J" -> "j"
      [] c = "V" -> "v"
      [] c = "InProceedings" -> "inproceedings"
      [] c = "ARXIV" -> "arxiv"
      [] OTHER -> c

\* str.lower()
lower(s) == [i \in 1..Len(s) |-> LowerTok(s[i])]

\* re.sub(r"\s+", " ", s): every run of whitespace becomes one blank
RECURSIVE CollapseWs(_)
CollapseWs(s) ==
    IF s = <<>> THEN <<>>
    ELSE IF Head(s) \in Whitespace
         THEN <<" ">> \o CollapseWs(lstrip(s))
         ELSE <<Head(s)>> \o CollapseWs(Tail(s))

\* tryout.py normalize_ws: collapse whitespace runs, then strip
normalize_ws(s) == strip(CollapseWs(s))

\* html.unescape on a token: the entities the alphabet holds
UnescapeTok(c) ==
    CASE c = "&lt;" -> "<"
      [] c = "&gt;" -> ">"
      [] OTHER -> c

\* html.unescape
unescape(s) == [i \in 1..Len(s) |-> UnescapeTok(s[i])]

\* index of the first ">" of s at or after i, 0 when there is none
RECURSIVE FirstGt(_, _)
FirstGt(s, i) ==
    IF i > Len(s) THEN 0 ELSE IF s[i] = ">" THEN i ELSE FirstGt(s, i + 1)

\* re.sub(r"<[^>]+>", " ", s): a "<", at least one character that is not ">",
\* then ">" is a tag and becomes one blank; scanning left to right
RECURSIVE StripTags(_)
StripTags(s) ==
    IF s = <<>> THEN <<>>
    ELSE LET j == FirstGt(s, 2)
         IN  IF Head(s) = "<" /\ j >= 3
             THEN <<" ">> \o StripTags(SubSeq(s, j + 1, Len(s)))
             ELSE <<Head(s)>> \o StripTags(Tail(s))

\* tryout.py clean_crossref_text: unescape entities, strip tags, normalize blanks
clean_crossref_text(s) ==
    IF s = EmptyStr THEN EmptyStr ELSE normalize_ws(StripTags(unescape(s)))

\* tryout.py strip_html_tags: strip tags first, unescape after
strip_html_tags(s) ==
    IF s = EmptyStr THEN EmptyStr ELSE normalize_ws(unescape(StripTags(s)))

-----------------------------------------------------------------------------
(* Text helpers of tryout.py *)

\* string.punctuation, as far as the alphabet holds it
Punctuation == {".", ",", ":", "'", "-", "<", ">", "(", ")", "/", "_"}

\* s.replace(old, new) for one-token old and new
ReplaceTok(s, old, new) == [i \in 1..Len(s) |-> IF s[i] = old THEN new ELSE s[i]]

\* "".join(ch for ch in s if ch not in chars)
RECURSIVE DropToks(_, _)
DropToks(s, chars) ==
    IF s = <<>> THEN <<>>
    ELSE IF Head(s) \in chars THEN DropToks(Tail(s), chars)
         ELSE <<Head(s)>> \o DropToks(Tail(s), chars)

\* the token standing for the typographic apostrophe U+2019
RSquo == "&rsquo;"

\* tryout.py normalize_title
normalize_title(s) ==
    normalize_ws(DropToks(ReplaceTok(lower(strip(s)), RSquo, "'"), Punctuation))

\* length of the common run of a from i and b from j
RECURSIVE RunLen(_, _, _, _)
RunLen(a, b, i, j) ==
    IF i <= Len(a) /\ j <= Len(b) /\ a[i] = b[j] THEN 1 + RunLen(a, b, i + 1, j + 1) ELSE 0

\* the largest element of a non-empty set of naturals / the smallest
SetMax(S) == CHOOSE x \in S : \A y \in S : y <= x
SetMin(S) == CHOOSE x \in S : \A y \in S : x <= y

\* difflib find_longest_match: the longest common block, the one starting
\* earliest in a, and of those the one starting earliest in b
LongestMatch(a, b) ==
    LET k  == SetMax({RunLen(a, b, i, j) : i \in 1..Len(a), j \in 1..Len(b)})
        i0 == SetMin({i \in 1..Len(a) : \E j \in 1..Len(b) : RunLen(a, b, i, j) = k})
        j0 == SetMin({j \in 1..Len(b) : RunLen(a, b, i0, j) = k})
    IN  [i |-> i0, j |-> j0, k |-> k]

\* difflib get_matching_blocks: characters in the blocks found by taking the
\* longest match and recursing to its left and to its right
RECURSIVE MatchCount(_, _)
MatchCount(a, b) ==
    IF a = <<>> \/ b = <<>> THEN 0
    ELSE LET m == LongestMatch(a, b)
         IN  IF m.k = 0 THEN 0
             ELSE m.k
                  + MatchCount(SubSeq(a, 1, m.i - 1), SubSeq(b, 1, m.j - 1))
                  + MatchCount(SubSeq(a, m.i + m.k, Len(a)), SubSeq(b, m.j + m.k, Len(b)))

\* tryout.py seq_ratio: SequenceMatcher(None, a, b).ratio() = 2*M/T, and 1.0
\* when both are empty; a rational [num, den]
seq_ratio(a, b) ==
    IF Len(a) + Len(b) = 0 THEN [num |-> 1, den |-> 1]
    ELSE [num |-> 2 * MatchCount(a, b), den |-> Len(a) + Len(b)]

\* r >= p/100 for a rational r
AtLeastPct(r, p) == 100 * r.num >= p * r.den

\* title threshold 0.88 and venue threshold 0.45, in percent
TitlePct == 88
VenuePct == 45

\* str.split(): the maximal runs of non-blank tokens, in order
RECURSIVE SplitWord(_)
SplitWord(s) ==
    IF s = <<>> \/ Head(s) \in Whitespace THEN <<>> ELSE <<Head(s)>> \o SplitWord(Tail(s))

RECURSIVE Split(_)
Split(s) ==
    LET t == lstrip(s)
    IN  IF t = <<>> THEN <<>>
        ELSE LET w == SplitWord(t)
             IN  <<w>> \o Split(SubSeq(t, Len(w) + 1, Len(t)))

\* the elements of a sequence
Range(f) == {f[i] : i \in DOMAIN f}

\* tryout.py token_set_ratio: |ta & tb| / |ta | tb|, 0.0 when a side is empty
\* or nothing is shared; a rational [num, den]
token_set_ratio(a, b) ==
    LET a1 == normalize_ws(lower(a))
        b1 == normalize_ws(lower(b))
        ta == Range(Split(a1))
        tb == Range(Split(b1))
    IN  IF a1 = EmptyStr \/ b1 = EmptyStr THEN [num |-> 0, den |-> 1]
        ELSE IF ta \cap tb = {} THEN [num |-> 0, den |-> 1]
        ELSE [num |-> Cardinality(ta \cap tb), den |-> Cardinality(ta \cup tb)]

\* DOI_RE: a registrant prefix "10.NNNN/" and the run of DOI characters after it
DoiPrefixes == {"10.1145/", "10.1007/", "10.5555/"}
DoiChars    == {"x", "y", "z", "X", ".", "-", "_", ":", "/", "(", ")"}

RECURSIVE TakeWhile(_, _)
TakeWhile(s, chars) ==
    IF s # <<>> /\ Head(s) \in chars THEN <<Head(s)>> \o TakeWhile(Tail(s), chars) ELSE <<>>

\* tryout.py extract_doi: the first match of DOI_RE in the text, "" when none
RECURSIVE extract_doi(_)
extract_doi(text) ==
    IF text = <<>> THEN EmptyStr
    ELSE IF Head(text) \in DoiPrefixes /\ TakeWhile(Tail(text), DoiChars) # <<>>
         THEN <<Head(text)>> \o TakeWhile(Tail(text), DoiChars)
         ELSE extract_doi(Tail(text))

\* ARXIV_WORD_RE (\barxiv\b, case-insensitive) finds a match
ArxivWords == {"arxiv", "arXiv", "ARXIV"}
HasArxivWord(text) == \E i \in 1..Len(text) : text[i] \in ArxivWords

\* arXiv identifiers NNNN.NNNNN[vN]
ArxivIds == {"2101.00001", "2101.00002"}

\* tryout.py extract_arxiv_id_from_any: arxiv.org/abs/<id> or arxiv.org/pdf/<id>,
\* else "arXiv:<id>"
RECURSIVE extract_arxiv_id_from_any(_)
extract_arxiv_id_from_any(text) ==
    LET UrlAt(t) == /\ Len(t) >= 3 /\ t[1] \in ArxivWords
                    /\ t[2] \in {".org/abs/", ".org/pdf/"} /\ t[3] \in ArxivIds
        RECURSIVE FindUrl(_)
        FindUrl(t) == IF t = <<>> THEN EmptyStr
                      ELSE IF UrlAt(t) THEN <<t[3]>> ELSE FindUrl(Tail(t))
        PrefAt(t) == /\ Len(t) >= 3 /\ t[1] \in ArxivWords /\ t[2] = ":" /\ t[3] \in ArxivIds
        RECURSIVE FindPref(_)
        FindPref(t) == IF t = <<>> THEN EmptyStr
                       ELSE IF PrefAt(t) THEN <<t[3]>> ELSE FindPref(Tail(t))
    IN  IF text = <<>> THEN EmptyStr
        ELSE IF FindUrl(text) # EmptyStr THEN FindUrl(text) ELSE FindPref(text)

\* tokens that are neither blank nor punctuation nor markup: the \w+ chunks
IsWord(c) == c \notin (Whitespace \cup Punctuation \cup {RSquo, "&lt;", "&gt;", "@"})

\* the tokens of s before the first occurrence of tok (all of s when absent)
RECURSIVE Before(_, _)
Before(s, tok) ==
    IF s = <<>> \/ Head(s) = tok THEN <<>> ELSE <<Head(s)>> \o Before(Tail(s), tok)

\* s.split(","): the pieces between commas
RECURSIVE SplitComma(_)
SplitComma(s) ==
    LET h == Before(s, ",")
    IN  IF Len(h) = Len(s) THEN <<s>>
        ELSE <<h>> \o SplitComma(SubSeq(s, Len(h) + 2, Len(s)))

\* " and ".join(parts)
RECURSIVE JoinAnd(_)
JoinAnd(parts) ==
    IF parts = <<>> THEN <<>>
    ELSE IF Len(parts) = 1 THEN parts[1]
    ELSE parts[1] \o <<" ", "and", " ">> \o JoinAnd(Tail(parts))

\* the non-empty stripped pieces of a list of strings
RECURSIVE StripNonEmpty(_)
StripNonEmpty(parts) ==
    IF parts = <<>> THEN <<>>
    ELSE IF strip(parts[1]) = <<>> THEN StripNonEmpty(Tail(parts))
    ELSE <<strip(parts[1])>> \o StripNonEmpty(Tail(parts))

\* re.search(r"\s+and\s+", s)
HasAnd(s) ==
    \E i \in 2..(Len(s) - 1) :
        s[i] = "and" /\ s[i - 1] \in Whitespace /\ s[i + 1] \in Whitespace

\* re.findall(r"\b\w+,\s*\w+", s) is non-empty: a word, a comma, blanks, a word
HasLastFirst(s) ==
    \E i \in 1..Len(s) :
        /\ IsWord(s[i])
        /\ i + 1 <= Len(s) /\ s[i + 1] = ","
        /\ LET rest == lstrip(SubSeq(s, i + 2, Len(s)))
           IN  rest # <<>> /\ IsWord(rest[1])

\* tryout.py normalize_authors_to_bibtex
normalize_authors_to_bibtex(author_str) ==
    LET s == normalize_ws(author_str)
    IN  IF s = EmptyStr THEN EmptyStr
        ELSE IF HasAnd(s) THEN s
        ELSE IF ~HasLastFirst(s) /\ "," \in Range(s)
             THEN LET parts == StripNonEmpty(SplitComma(s))
                  IN  IF Len(parts) >= 2 THEN JoinAnd(parts) ELSE s
             ELSE s

\* four-digit year tokens and their integer values
YearToks == {"2024", "2025", "2026"}
YearInt(tok) ==
    CASE tok = "2024" -> 2024
      [] tok = "2025" -> 2025
      [] tok = "2026" -> 2026

\* authors_bibtex.split(" and ", 1)[0]
RECURSIVE BeforeAnd(_)
BeforeAnd(s) ==
    IF s = <<>> THEN <<>>
    ELSE IF Len(s) >= 3 /\ s[1] = " " /\ s[2] = "and" /\ s[3] = " " THEN <<>>
    ELSE <<Head(s)>> \o BeforeAnd(Tail(s))

\* "_".join(words)
RECURSIVE JoinUnderscore(_)
JoinUnderscore(words) ==
    IF words = <<>> THEN <<>>
    ELSE IF Len(words) = 1 THEN words[1]
    ELSE words[1] \o <<"_">> \o JoinUnderscore(Tail(words))

\* the tokens of s that re.sub(r"[^A-Za-z0-9]+", "", s) keeps
RECURSIVE KeepWords(_)
KeepWords(s) ==
    IF s = <<>> THEN <<>>
    ELSE IF IsWord(Head(s)) THEN <<Head(s)>> \o KeepWords(Tail(s))
    ELSE KeepWords(Tail(s))

\* the tokens of s that re.sub(r"[^a-z0-9 ]+", "", s) keeps
RECURSIVE KeepWordsAndBlanks(_)
KeepWordsAndBlanks(s) ==
    IF s = <<>> THEN <<>>
    ELSE IF IsWord(Head(s)) \/ Head(s) = " " THEN <<Head(s)>> \o KeepWordsAndBlanks(Tail(s))
    ELSE KeepWordsAndBlanks(Tail(s))

\* tryout.py make_bib_key: first author's last name, year or "nd", "_", title slug
make_bib_key(authors_bibtex, year, title) ==
    LET digits == SelectSeq(year, LAMBDA c : c \in YearToks)
        y      == IF digits # <<>> THEN <<digits[1]>> ELSE <<"nd">>
        first0 == strip(BeforeAnd(authors_bibtex))
        first1 == IF authors_bibtex = EmptyStr THEN EmptyStr
                  ELSE IF "," \in Range(first0) THEN strip(Before(first0, ","))
                  ELSE LET toks == Split(first0)
                       IN  IF toks # <<>> THEN toks[Len(toks)] ELSE first0
        first  == IF KeepWords(first1) # <<>> THEN KeepWords(first1) ELSE <<"anon">>
        t0     == KeepWordsAndBlanks(normalize_title(title))
        t      == IF t0 # <<>> THEN JoinUnderscore(SubSeq(Split(t0), 1, SetMin({6, Len(Split(t0))})))
                  ELSE <<"untitled">>
    IN  first \o y \o <<"_">> \o t

-----------------------------------------------------------------------------
(* Citekey allocator: unique_id of test.py and of check_file.py *)

\* the while loop: the first i, counting up, with f"{base}{i}" not in used
RECURSIVE FirstFree(_, _, _)
FirstFree(base, usedSet, i) ==
    IF (base \o ToString(i)) \in usedSet THEN FirstFree(base, usedSet, i + 1) ELSE i

\* a unique_id that forgets to register a base it hands out unchanged
unique_id_noadd(base, usedSet) ==
    IF base \notin usedSet
    THEN [id |-> base, used |-> usedSet]
    ELSE LET new_id == base \o ToString(FirstFree(base, usedSet, 2))
         IN  [id |-> new_id, used |-> usedSet \cup {new_id}]

\* check_file.py unique_id: returns the key and the registry after the call
unique_id_check(base, usedSet) ==
    IF base \notin usedSet
    THEN [id |-> base, used |-> usedSet \cup {base}]
    ELSE LET new_id == base \o ToString(FirstFree(base, usedSet, 2))
         IN  [id |-> new_id, used |-> usedSet \cup {new_id}]

\* a unique_id whose suffix search starts at 1 instead of 2
unique_id_from1(base, usedSet) ==
    LET b == IF base = "" THEN "pub" ELSE base
    IN  IF b \notin usedSet
        THEN [id |-> b, used |-> usedSet \cup {b}]
        ELSE LET new_id == b \o ToString(FirstFree(b, usedSet, 1))
             IN  [id |-> new_id, used |-> usedSet \cup {new_id}]

\* test.py unique_id: as above, after base = base or "pub"
unique_id_test(base, usedSet) ==
    LET b == IF base = "" THEN "pub" ELSE base
    IN  IF b \notin usedSet
        THEN [id |-> b, used |-> usedSet \cup {b}]
        ELSE LET new_id == b \o ToString(FirstFree(b, usedSet, 2))
             IN  [id |-> new_id, used |-> usedSet \cup {new_id}]

\* number of unique_id calls explored on one registry
MaxCalls == 4

\* The bases the callers pass: test.py main passes e["ID"], which
\* crossref_to_bib_entry / arxiv_to_bib_entry keep only when non-empty;
\* check_file.py main replaces an empty ID by scholar_NNNN first.
KeyBases == {"smith2025foo", "smith2025foo2", "smith2025foo22", "pub"}

InitKey ==
    /\ impl \in {"test", "check_file"}
    /\ used = {}
    /\ bases = <<>>
    /\ keys = <<>>
    /\ prevUsed = {}

IdleKey ==
    /\ impl = "test"
    /\ used = {}
    /\ bases = <<>>
    /\ keys = <<>>
    /\ prevUsed = {}

\* one call e["ID"] = unique_id(base, used_ids)
UniqueIdCall ==
    /\ Len(keys) < MaxCalls
    /\ \E base \in KeyBases :
        LET r == IF impl = "test" THEN unique_id_test(base, used)
                 ELSE unique_id_check(base, used)
        IN  /\ used' = r.used
            /\ keys' = Append(keys, r.id)
            /\ bases' = Append(bases, base)
            /\ prevUsed' = used
    /\ UNCHANGED <<impl, mergeVars, mainVars, testVars, updVars, fnVars, rerunVars>>


\* the latest call's base, the key it returned, and how many calls were made
LastBase == bases[Len(bases)]
LastKey  == keys[Len(keys)]

\* C3: citekey allocation is injective within a run: the keys returned by any
\* sequence of unique_id calls on one registry that started empty are pairwise
\* distinct (bases repeated or not, bases ending in digits included).
C3_KeysPairwiseDistinct ==
    \A i, j \in 1..Len(keys) : i # j => keys[i] # keys[j]

\* C3 witness: a base ending in a digit was registered, then its stem twice, so
\* that the suffix search had to step over the taken "smith2025foo2".
C3_Witness ==
    /\ Len(keys) >= 3
    /\ bases[1] = "smith2025foo2"
    /\ bases[2] = "smith2025foo"
    /\ bases[3] = "smith2025foo"
    /\ keys[3] = "smith2025foo3"

\* C5: unique(base, used) returns base when base is not in used; otherwise base
\* followed by the smallest k >= 2 with base+k not in used; the returned key,
\* and nothing else, is added to used.  Two equal bases on a fresh registry:
\* the second call returns base+"2".
C5_UniqueIdContract ==
    /\ Len(keys) > 0 =>
        /\ LastBase \notin prevUsed => LastKey = LastBase
        /\ LastBase \in prevUsed =>
              \E k \in 2..(Cardinality(prevUsed) + 2) :
                  /\ LastKey = LastBase \o ToString(k)
                  /\ LastKey \notin prevUsed
                  /\ \A j \in 2..(k - 1) : (LastBase \o ToString(j)) \in prevUsed
        /\ used = prevUsed \cup {LastKey}
    /\ (Len(keys) >= 2 /\ bases[1] = bases[2]) => keys[2] = bases[1] \o "2"

\* C5 witness: the base was taken and so was base+"2": the call returned base+"3".
C5_Witness ==
    /\ Len(keys) >= 2
    /\ LastBase \in prevUsed
    /\ (LastBase \o "2") \in prevUsed
    /\ LastKey = LastBase \o "3"

-----------------------------------------------------------------------------
(* Field merge: merge_patch of tryout.py *)

\* a merge_patch that writes whether or not the field is populated
RECURSIVE merge_patch_always(_, _, _)
merge_patch_always(entry, patch, overwrite) ==
    IF patch = <<>> THEN entry
    ELSE LET k  == patch[1][1]
             v  == patch[1][2]
             kk == IF k \in {"ENTRYTYPE", "ID"} THEN k ELSE LowerKey(k)
             e2 == IF v = None THEN entry ELSE Put(entry, kk, strip(v))
         IN  merge_patch_always(e2, Tail(patch), overwrite)

\* merge_patch(entry, patch, overwrite): the entry after the in-place merge
RECURSIVE merge_patch(_, _, _)
merge_patch(entry, patch, overwrite) ==
    IF patch = <<>> THEN entry
    ELSE LET k  == patch[1][1]
             v  == patch[1][2]
             kk == IF k \in {"ENTRYTYPE", "ID"} THEN k ELSE LowerKey(k)
             e2 == IF v = None THEN entry
                   ELSE IF overwrite \/ strip(Get(entry, kk)) = EmptyStr
                        THEN Put(entry, kk, strip(v))
                        ELSE entry
         IN  merge_patch(e2, Tail(patch), overwrite)

\* longest patch explored
MaxPatch == 2

\* field values as parse_first_bibtex_entry and merge_patch leave them (stripped)
StoredVals == {EmptyStr, <<"a">>, <<"b">>}

\* values a caller may pass in a patch
PatchVals == {None, EmptyStr, <<" ">>, <<"a">>, <<" ", "b">>}

MergeKeys == {"title", "ID"}
PatchKeys == {"title", "Title", "ID"}

\* dicts over MergeKeys whose values are stored values
MergeEntries ==
    UNION {[d -> StoredVals] : d \in SUBSET MergeKeys}

\* patches: lists of <<key, value>> with pairwise distinct keys (a dict)
Patches ==
    UNION {{p \in [1..n -> PatchKeys \X PatchVals] :
                \A i, j \in 1..n : i # j => p[i][1] # p[j][1]} : n \in 0..MaxPatch}

NoFallbacks == [title |-> EmptyStr, venue |-> EmptyStr, year |-> EmptyStr,
                link |-> EmptyStr, abstract |-> EmptyStr]

InitMergePatch ==
    /\ m_op = "merge_patch"
    /\ m_pc = "call"
    /\ m_entry \in MergeEntries
    /\ m_patch \in Patches
    /\ m_over \in BOOLEAN
    /\ m_bib = [kind |-> "empty"]
    /\ m_fb = NoFallbacks
    /\ m_out = EmptyDict

IdleMerge ==
    /\ m_op = "merge_patch"
    /\ m_pc = "done"
    /\ m_entry = EmptyDict
    /\ m_patch = <<>>
    /\ m_over = FALSE
    /\ m_bib = [kind |-> "empty"]
    /\ m_fb = NoFallbacks
    /\ m_out = EmptyDict

\* the call merge_patch(entry, patch, overwrite)
MergePatchCall ==
    /\ m_op = "merge_patch"
    /\ m_pc = "call"
    /\ m_out' = merge_patch(m_entry, m_patch, m_over)
    /\ m_pc' = "done"
    /\ UNCHANGED <<m_op, m_entry, m_patch, m_over, m_bib, m_fb, keyVars, mainVars, testVars, updVars, fnVars, rerunVars>>


\* C1: merge is non-destructive: merge_patch(entry, patch, overwrite=False)
\* leaves every field that was non-empty in entry exactly as it was; a populated
\* field is replaced only by a call with overwrite=True.
C1_MergeNonDestructive ==
    (m_op = "merge_patch" /\ m_pc = "done") =>
        \A k \in DOMAIN m_entry :
            (m_entry[k] # EmptyStr /\ (k \notin DOMAIN m_out \/ m_out[k] # m_entry[k]))
                => m_over

\* C1 witness: overwrite=False, and the patch offered another value for a
\* populated field.
C1_Witness ==
    /\ m_op = "merge_patch" /\ m_pc = "done" /\ ~m_over
    /\ \E i \in 1..Len(m_patch) :
        LET kk == LowerKey(m_patch[i][1]) IN
        /\ kk \in DOMAIN m_entry
        /\ m_entry[kk] # EmptyStr
        /\ m_patch[i][2] # None
        /\ strip(m_patch[i][2]) # m_entry[kk]

-----------------------------------------------------------------------------
(* build_entry_keep_all_fields of tryout.py and what it calls *)

\* A BibTeX text is [kind |-> "empty"] (the empty string), [kind |-> "garbage"]
\* (bibtexparser raises or finds no entry) or [kind |-> "bib", e |-> d] where d
\* is the dict bibtexparser returns for the first entry.

\* the key parse_first_bibtex_entry stores a parsed key under
ParsedKey(k) ==
    IF LowerKey(k) \in {"entrytype", "id"} \/ k \in {"ENTRYTYPE", "ID"}
    THEN (IF LowerKey(k) = "entrytype" \/ k = "ENTRYTYPE" THEN "ENTRYTYPE" ELSE "ID")
    ELSE LowerKey(k)

\* tryout.py parse_first_bibtex_entry
parse_first_bibtex_entry(bibtex_str) ==
    IF bibtex_str.kind # "bib" THEN EmptyDict
    ELSE LET e    == bibtex_str.e
             kept == {k \in DOMAIN e : e[k] # None}
         IN  [kk \in {ParsedKey(k) : k \in kept} |->
                 strip(e[CHOOSE k \in kept : ParsedKey(k) = kk])]

\* a prefer_doi_key without the check that there is a DOI
prefer_doi_key_unguarded(entry) == Put(entry, "ID", strip(Get(entry, "doi")))

\* tryout.py prefer_doi_key
prefer_doi_key(entry) ==
    LET doi == strip(Get(entry, "doi"))
    IN  IF doi # EmptyStr THEN Put(entry, "ID", doi) ELSE entry

\* tryout.py normalize_doi_url
normalize_doi_url(entry) ==
    LET doi == strip(Get(entry, "doi"))
    IN  IF doi # EmptyStr THEN Put(entry, "url", <<"https://doi.org/">> \o doi) ELSE entry

\* a build that patches the venue into journal whatever the entry type
build_entry_venue_journal(bibtex_str, title_fallback, venue_fallback, year_fallback, link_fallback, abstract_fallback) ==
    LET entry == parse_first_bibtex_entry(bibtex_str)
    IN  IF entry = EmptyDict THEN EmptyDict
        ELSE
        LET e1 == merge_patch(entry, << <<"title", title_fallback>>,
                                        <<"year", year_fallback>>,
                                        <<"url", link_fallback>> >>, FALSE)
            e2 == IF Get(e1, "title") # EmptyStr
                  THEN Put(e1, "title", clean_crossref_text(e1["title"]))
                  ELSE e1
            e3 == IF Get(e2, "journal") = EmptyStr /\ Get(e2, "booktitle") = EmptyStr
                  THEN merge_patch(e2, << <<"journal", venue_fallback>> >>, FALSE)
                  ELSE e2
            e4 == IF abstract_fallback # EmptyStr
                  THEN merge_patch(e3, << <<"abstract", abstract_fallback>> >>, FALSE)
                  ELSE e3
        IN  normalize_doi_url(prefer_doi_key(e4))

\* tryout.py build_entry_keep_all_fields
build_entry_keep_all_fields(bibtex_str, title_fallback, venue_fallback, year_fallback, link_fallback, abstract_fallback) ==
    LET entry == parse_first_bibtex_entry(bibtex_str)
    IN  IF entry = EmptyDict THEN EmptyDict
        ELSE
        LET e1 == merge_patch(entry, << <<"title", title_fallback>>,
                                        <<"year", year_fallback>>,
                                        <<"url", link_fallback>> >>, FALSE)
            e2 == IF Get(e1, "title") # EmptyStr
                  THEN Put(e1, "title", clean_crossref_text(e1["title"]))
                  ELSE e1
            et == lower(Get(e2, "ENTRYTYPE"))
            e3 == IF Get(e2, "journal") = EmptyStr /\ Get(e2, "booktitle") = EmptyStr
                  THEN IF et \in {<<"inproceedings">>, <<"incollection">>}
                       THEN merge_patch(e2, << <<"booktitle", venue_fallback>> >>, FALSE)
                       ELSE merge_patch(e2, << <<"journal", venue_fallback>> >>, FALSE)
                  ELSE e2
            e4 == IF abstract_fallback # EmptyStr
                  THEN merge_patch(e3, << <<"abstract", abstract_fallback>> >>, FALSE)
                  ELSE e3
        IN  normalize_doi_url(prefer_doi_key(e4))

\* the DOIs of the model: a registrant prefix chunk and a suffix chunk
DoiAcm      == <<"10.1145/", "x">>
DoiSpringer == <<"10.1007/", "y">>
DoiOther    == <<"10.5555/", "z">>

\* optional field: absent, or one of the given values
Opt(key, vals) == {EmptyDict} \cup {[k \in {key} |-> v] : v \in vals}

\* the union of dicts with disjoint keys
Join(d1, d2) == [k \in (DOMAIN d1) \cup (DOMAIN d2) |-> IF k \in DOMAIN d1 THEN d1[k] ELSE d2[k]]

\* first-entry dicts a BibTeX source may deliver to build_entry_keep_all_fields
BuildRawEntries ==
    {Join(Join(Join(Join(Join(Join(Join(t, ti), j), b), d), u), a), y) :
        t  \in {[ENTRYTYPE |-> <<"article">>, ID |-> <<"k">>],
                [ENTRYTYPE |-> <<"inproceedings">>, ID |-> <<"k">>],
                [ENTRYTYPE |-> <<"InProceedings">>, ID |-> <<"k">>],
                [ENTRYTYPE |-> <<"incollection">>, ID |-> <<"k">>]},
        ti \in Opt("title", {EmptyStr, <<"a">>, <<"<", "i", ">", "a", " ">>}),
        j  \in Opt("journal", {<<"J">>, EmptyStr}),
        b  \in Opt("booktitle", {<<"B">>}),
        d  \in Opt("doi", {DoiOther}),
        u  \in Opt("url", {<<"http://u">>}),
        a  \in Opt("abstract", {<<"x">>}),
        y  \in Opt("year", {<<"2024">>})}

BuildBibs ==
    {[kind |-> "empty"], [kind |-> "garbage"]}
        \cup {[kind |-> "bib", e |-> e] : e \in BuildRawEntries}

\* fallbacks main may pass (venue, link and abstract may be empty there; the
\* function itself takes any strings)
BuildFallbacks ==
    [title : {EmptyStr, <<"t">>}, venue : {EmptyStr, <<"V">>},
     year : {EmptyStr, <<"2025">>}, link : {EmptyStr, <<"http://l">>},
     abstract : {EmptyStr, <<"y">>}]

InitBuild ==
    /\ m_op = "build"
    /\ m_pc = "call"
    /\ m_entry = EmptyDict
    /\ m_patch = <<>>
    /\ m_over = FALSE
    /\ m_bib \in BuildBibs
    /\ m_fb \in BuildFallbacks
    /\ m_out = EmptyDict

\* the call build_entry_keep_all_fields(bibtex_str, title_fallback, ...)
BuildCall ==
    /\ m_op = "build"
    /\ m_pc = "call"
    /\ m_out' = build_entry_keep_all_fields(m_bib, m_fb.title, m_fb.venue,
                                            m_fb.year, m_fb.link, m_fb.abstract)
    /\ m_pc' = "done"
    /\ UNCHANGED <<m_op, m_entry, m_patch, m_over, m_bib, m_fb, keyVars, mainVars, testVars, updVars, fnVars, rerunVars>>

\* the call of build_entry_keep_all_fields returned an entry; its base
BuildReturned == m_op = "build" /\ m_pc = "done" /\ m_out # EmptyDict
BuildBase == parse_first_bibtex_entry(m_bib)
BaseHasVenue == Get(BuildBase, "journal") # EmptyStr \/ Get(BuildBase, "booktitle") # EmptyStr
BaseIsProceedings ==
    lower(Get(BuildBase, "ENTRYTYPE")) \in {<<"inproceedings">>, <<"incollection">>}

\* field k is in the result exactly as it is in the base
SameAsBase(k) ==
    /\ (k \in DOMAIN m_out) = (k \in DOMAIN BuildBase)
    /\ k \in DOMAIN m_out => m_out[k] = BuildBase[k]

\* C13: build_entry_keep_all_fields writes the fallback venue only when the
\* base has neither journal nor booktitle; then to booktitle for an
\* inproceedings or incollection entry and to journal otherwise, never to
\* both; with journal or booktitle populated it changes neither.
C13_VenuePatchRule ==
    BuildReturned =>
        /\ BaseHasVenue => (SameAsBase("journal") /\ SameAsBase("booktitle"))
        /\ (~BaseHasVenue /\ BaseIsProceedings) =>
              (Get(m_out, "booktitle") = strip(m_fb.venue) /\ SameAsBase("journal"))
        /\ (~BaseHasVenue /\ ~BaseIsProceedings) =>
              (Get(m_out, "journal") = strip(m_fb.venue) /\ SameAsBase("booktitle"))

\* C13 witness: an entry of type InProceedings with neither journal nor
\* booktitle got the fallback venue as its booktitle, and no journal.
C13_Witness ==
    /\ BuildReturned
    /\ ~BaseHasVenue /\ BaseIsProceedings
    /\ m_fb.venue = <<"V">>
    /\ m_out["booktitle"] = <<"V">>
    /\ "journal" \notin DOMAIN m_out

\* the fields of the base that the build may rewrite by design
Rewritten == {"title", "url", "ID"}

\* C26 as stated: every key of the parsed base entry is a key of the returned
\* entry and every base field other than title, url and ID keeps exactly its
\* base value; without a doi field, url and ID keep their base values too.
C26_BaseFieldsKept ==
    BuildReturned =>
        /\ DOMAIN BuildBase \subseteq DOMAIN m_out
        /\ \A k \in (DOMAIN BuildBase) \ Rewritten : m_out[k] = BuildBase[k]
        /\ "doi" \notin DOMAIN BuildBase =>
              \A k \in (DOMAIN BuildBase) \cap {"url", "ID"} : m_out[k] = BuildBase[k]

\* C26 as amended: every key of the base is a key of the returned entry;
\* every non-empty base field other than title, url and ID keeps exactly its
\* base value; a non-empty title is the base title with its markup cleaned;
\* without a DOI of its own a non-empty url and the ID keep their base values,
\* and with one the ID is the DOI and the url is https://doi.org/ and the DOI.
C26_PopulatedBaseFieldsKept ==
    BuildReturned =>
        /\ DOMAIN BuildBase \subseteq DOMAIN m_out
        /\ \A k \in (DOMAIN BuildBase) \ Rewritten :
              BuildBase[k] # EmptyStr => m_out[k] = BuildBase[k]
        /\ Get(BuildBase, "title") # EmptyStr
              => m_out["title"] = clean_crossref_text(BuildBase["title"])
        /\ IF Get(BuildBase, "doi") = EmptyStr
           THEN /\ m_out["ID"] = BuildBase["ID"]
                /\ Get(BuildBase, "url") # EmptyStr => m_out["url"] = BuildBase["url"]
           ELSE /\ m_out["ID"] = BuildBase["doi"]
                /\ m_out["url"] = <<"https://doi.org/">> \o BuildBase["doi"]

\* C26 witness: a base with year, abstract and url of its own and no DOI came
\* back with all three and its ID unchanged although the fallbacks differ, and
\* with its empty journal filled from the venue fallback.
C26_Witness ==
    /\ BuildReturned
    /\ "doi" \notin DOMAIN BuildBase
    /\ Get(BuildBase, "year") = <<"2024">> /\ m_fb.year = <<"2025">>
    /\ Get(BuildBase, "abstract") = <<"x">> /\ m_fb.abstract = <<"y">>
    /\ Get(BuildBase, "url") = <<"http://u">> /\ m_fb.link = <<"http://l">>
    /\ "journal" \in DOMAIN BuildBase /\ BuildBase["journal"] = EmptyStr
    /\ "booktitle" \notin DOMAIN BuildBase /\ ~BaseIsProceedings
    /\ m_fb.venue = <<"V">>
    /\ m_out["year"] = <<"2024">> /\ m_out["abstract"] = <<"x">>
    /\ m_out["url"] = <<"http://u">> /\ m_out["ID"] = <<"k">>
    /\ m_out["journal"] = <<"V">>

\* C2: every field present in a record produced by the merge is non-empty
\* after trimming; the merge never stores an empty string (a value that
\* normalizes to empty is dropped).  Stated for the records whose base had no
\* empty field of its own, so that an empty field can only come from the merge.
C2_NoEmptyFieldStored ==
    m_pc = "done" =>
        LET base == IF m_op = "build" THEN parse_first_bibtex_entry(m_bib) ELSE m_entry
        IN  (\A k \in DOMAIN base : base[k] # EmptyStr)
                => \A k \in DOMAIN m_out : strip(m_out[k]) # EmptyStr

-----------------------------------------------------------------------------
(* tryout.py: pickers, source responses and the pure parts of the adapters *)

\* now_year() of the run, and the window YEAR_WINDOW
ThisYear == 2026
YEAR_WINDOW == 2
allowed_years == {ThisYear - i : i \in 0..(YEAR_WINDOW - 1)}

\* int(year): [ok |-> FALSE] stands for the ValueError
ParseInt(year) ==
    LET y == strip(year)
    IN  IF Len(y) = 1 /\ y[1] \in YearToks
        THEN [ok |-> TRUE, val |-> YearInt(y[1])]
        ELSE [ok |-> FALSE, val |-> 0]

\* A publication is [title, author, pub_year, citation, pub_url]: the bib
\* fields and pub_url of p_full.
pick_title(p)   == normalize_ws(p.title)
pick_authors(p) == normalize_ws(p.author)
pick_year(p)    == strip(p.pub_year)
pick_link(p)    == normalize_ws(p.pub_url)

\* re.sub(r"\s*\(?\b(19|20)\d{2}\b\)?\s*$", "", cit): a trailing year goes
DropTrailingYear(cit) ==
    LET a == rstrip(cit)
        b == IF a # <<>> /\ a[Len(a)] = ")" THEN SubSeq(a, 1, Len(a) - 1) ELSE a
    IN  IF b # <<>> /\ b[Len(b)] \in YearToks
        THEN LET c == SubSeq(b, 1, Len(b) - 1)
                 d == IF c # <<>> /\ c[Len(c)] = "(" THEN SubSeq(c, 1, Len(c) - 1) ELSE c
             IN  rstrip(d)
        ELSE cit

\* tryout.py pick_venue
pick_venue(p) ==
    LET cit  == normalize_ws(p.citation)
        head == strip(Before(cit, ","))
    IN  IF cit = EmptyStr THEN EmptyStr
        ELSE IF head # EmptyStr /\ lower(head) # <<"unknown">> THEN head
        ELSE strip(DropTrailingYear(cit))

\* the order in which a BibTeX text lists its fields
FieldOrder == <<"ENTRYTYPE", "ID", "title", "author", "year", "journal",
                "booktitle", "doi", "url", "abstract">>

\* the characters of a BibTeX text, as far as the regular expressions of main
\* see them: "@", then the field values in order
RECURSIVE FieldsText(_, _)
FieldsText(e, ks) ==
    IF ks = <<>> THEN <<>>
    ELSE (IF Head(ks) \in DOMAIN e THEN e[Head(ks)] \o <<"\n">> ELSE <<>>)
         \o FieldsText(e, Tail(ks))

BibText(b) ==
    CASE b.kind = "empty"   -> EmptyStr
      [] b.kind = "garbage" -> <<"@">>
      [] b.kind = "bib"     -> <<"@">> \o FieldsText(b.e, FieldOrder)

\* truthiness of a BibTeX text
NonEmptyText(b) == b.kind # "empty"

EmptyBib == [kind |-> "empty"]

\* tryout.py bibtex_to_fields: the first entry with lower-cased keys
bibtex_to_fields(bibtex_str) ==
    IF bibtex_str.kind # "bib" THEN EmptyDict
    ELSE LET e    == bibtex_str.e
             kept == {k \in DOMAIN e : e[k] # None}
             Low(k) == IF k = "ENTRYTYPE" THEN "entrytype" ELSE IF k = "ID" THEN "id" ELSE LowerKey(k)
         IN  [kk \in {Low(k) : k \in kept} |-> strip(e[CHOOSE k \in kept : Low(k) = kk])]

\* json.dumps(scholar_fields): the values, in order
FieldsJson(fields) ==
    FieldsText(fields, <<"entrytype", "id">> \o SubSeq(FieldOrder, 3, Len(FieldOrder)))

\* A Crossref message as main reads it: title[0], issued.date-parts[0][0] as a
\* string, container-title[0], event.name, abstract, DOI; "" for what is absent
CrNone == [title |-> EmptyStr, year |-> EmptyStr, container |-> EmptyStr,
           event |-> EmptyStr, abstract |-> EmptyStr, DOI |-> EmptyStr]

\* container-title[0], else event.name
MsgVenue(msg) == IF msg.container # EmptyStr THEN msg.container ELSE msg.event

\* a validator without the year rule
DoiRecordOk_noyear(title, year, venue, msg) ==
    /\ AtLeastPct(seq_ratio(normalize_title(title), normalize_title(msg.title)), TitlePct)
    /\ (venue = EmptyStr \/ AtLeastPct(token_set_ratio(venue, MsgVenue(msg)), VenuePct))

\* main: title_ok and year_ok and venue_ok for the record fetched by DOI
DoiRecordOk(title, year, venue, msg) ==
    LET title_ok == AtLeastPct(seq_ratio(normalize_title(title), normalize_title(msg.title)), TitlePct)
        year_ok  == (year = EmptyStr) \/ (msg.year # EmptyStr /\ msg.year = year)
        venue_ok == (venue = EmptyStr) \/ AtLeastPct(token_set_ratio(venue, MsgVenue(msg)), VenuePct)
    IN  title_ok /\ year_ok /\ venue_ok

\* a/b > c/d for rationals with positive denominators
RatGreater(r1, r2) == r1.num * r2.den > r2.num * r1.den

\* 0.75 * tscore + 0.25 * vscore
WeightedScore(t, v) == [num |-> 3 * t.num * v.den + v.num * t.den, den |-> 4 * t.den * v.den]

\* a loop that lets an item with no resolvable year through
RECURSIVE SearchLoop_anyyear(_, _, _, _, _, _)
SearchLoop_anyyear(items, title_n, year, venue, best_item, best_score) ==
    IF items = <<>> THEN best_item
    ELSE LET it     == Head(items)
             tscore == seq_ratio(title_n, normalize_title(it.title))
             vscore == token_set_ratio(venue, MsgVenue(it))
             skip   == \/ ~AtLeastPct(tscore, TitlePct)
                       \/ (year # EmptyStr /\ it.year # EmptyStr /\ year # it.year)
                       \/ (venue # EmptyStr /\ ~AtLeastPct(vscore, VenuePct))
             score  == WeightedScore(tscore, vscore)
         IN  IF ~skip /\ RatGreater(score, best_score)
             THEN SearchLoop_anyyear(Tail(items), title_n, year, venue, it, score)
             ELSE SearchLoop_anyyear(Tail(items), title_n, year, venue, best_item, best_score)

\* crossref_search_best: the loop over the items, best so far and its score
RECURSIVE SearchLoop(_, _, _, _, _, _)
SearchLoop(items, title_n, year, venue, best_item, best_score) ==
    IF items = <<>> THEN best_item
    ELSE LET it     == Head(items)
             tscore == seq_ratio(title_n, normalize_title(it.title))
             vscore == token_set_ratio(venue, MsgVenue(it))
             skip   == \/ ~AtLeastPct(tscore, TitlePct)
                       \/ (year # EmptyStr /\ it.year # EmptyStr /\ year # it.year)
                       \/ (year # EmptyStr /\ it.year = EmptyStr)
                       \/ (venue # EmptyStr /\ ~AtLeastPct(vscore, VenuePct))
             score  == WeightedScore(tscore, vscore)
         IN  IF ~skip /\ RatGreater(score, best_score)
             THEN SearchLoop(Tail(items), title_n, year, venue, it, score)
             ELSE SearchLoop(Tail(items), title_n, year, venue, best_item, best_score)

\* tryout.py crossref_search_best on the items the registry returned
crossref_search_best(title, year, venue, items) ==
    SearchLoop(items, normalize_title(title), year, venue, CrNone, [num |-> 0, den |-> 1])

\* An arXiv search result is [title, id]: the entry's last <title> and its <id>
NoBest == [arxiv_id |-> EmptyStr, entry_url |-> EmptyStr, matched_title |-> EmptyStr]

RECURSIVE ArxivLoop(_, _, _, _)
ArxivLoop(results, title, best, best_score) ==
    IF results = <<>> THEN best
    ELSE LET e      == Head(results)
             etitle == normalize_ws(unescape(e.title))
             score  == seq_ratio(normalize_title(title), normalize_title(etitle))
         IN  IF RatGreater(score, best_score)
             THEN ArxivLoop(Tail(results), title,
                            [arxiv_id |-> extract_arxiv_id_from_any(normalize_ws(e.id)),
                             entry_url |-> normalize_ws(e.id), matched_title |-> etitle],
                            score)
             ELSE ArxivLoop(Tail(results), title, best, best_score)

\* tryout.py arxiv_find_best_by_title on the entries the API returned
arxiv_find_best_by_title(title, results) ==
    ArxivLoop(results, title, NoBest, [num |-> 0, den |-> 1])

\* arxiv_meta = {} : every .get() is empty
NoMeta == [title |-> EmptyStr, authors |-> EmptyStr, year |-> EmptyStr,
           url |-> EmptyStr, abstract |-> EmptyStr, primary_category |-> EmptyStr]

\* the dict literal {k: v, ...} restricted to the keys in ks
Only(d, ks) == [k \in ks |-> d[k]]

\* tryout.py build_arxiv_bib_entry
build_arxiv_bib_entry(base_title, base_year, base_venue, base_link, authors_guess, arxiv_meta) ==
    LET title   == IF arxiv_meta.title # EmptyStr THEN arxiv_meta.title ELSE base_title
        authors == IF arxiv_meta.authors # EmptyStr THEN arxiv_meta.authors
                   ELSE normalize_authors_to_bibtex(authors_guess)
        year    == IF arxiv_meta.year # EmptyStr THEN arxiv_meta.year ELSE base_year
        url     == IF arxiv_meta.url # EmptyStr THEN arxiv_meta.url ELSE base_link
        author  == normalize_authors_to_bibtex(authors)
        full    == [ENTRYTYPE |-> <<"misc">>, title |-> title, author |-> author,
                    year |-> year, howpublished |-> <<"arXiv">>, url |-> url,
                    primaryclass |-> arxiv_meta.primary_category,
                    abstract |-> arxiv_meta.abstract,
                    ID |-> make_bib_key(author, year, title)]
    IN  Only(full, {"ENTRYTYPE", "title", "author", "year", "howpublished", "url", "ID"}
                   \cup (IF arxiv_meta.primary_category # EmptyStr THEN {"primaryclass"} ELSE {})
                   \cup (IF arxiv_meta.abstract # EmptyStr THEN {"abstract"} ELSE {}))

\* main, step 5: the minimal entry built from the seed alone
minimal_entry(title, authors, year, venue, link) ==
    LET full == [ENTRYTYPE |-> <<"misc">>,
                 ID |-> make_bib_key(normalize_authors_to_bibtex(authors), year, title),
                 title |-> title, author |-> normalize_authors_to_bibtex(authors),
                 year |-> year, howpublished |-> venue, url |-> link]
    IN  Only(full, {"ENTRYTYPE", "ID", "title", "author", "year"}
                   \cup (IF venue # EmptyStr THEN {"howpublished"} ELSE {})
                   \cup (IF link # EmptyStr THEN {"url"} ELSE {}))

-----------------------------------------------------------------------------
(* tryout.py main: the seeds, what the sources may answer, and the loop *)

TitleA   == <<"D", "e", "e", "p", " ", "m", "a", "p", "s">>
TitleNear == <<"D", "e", "e", "p", " ", "m", "o", "p", "s">>
TitleOff == <<"o", "t", "h", "e", "r">>
AuthorA  == <<"Ann", " ", "Smith">>

\* publications of the profile, as scholarly.fill leaves them
PubAcm      == [title |-> TitleA, author |-> AuthorA, pub_year |-> <<"2025">>,
                citation |-> <<"V", ",", " ", "2025">>,
                pub_url |-> <<"https://dl.acm.org/doi/">> \o DoiAcm]
PubSpringer == [title |-> TitleA, author |-> AuthorA, pub_year |-> <<"2026">>,
                citation |-> EmptyStr,
                pub_url |-> <<"https://link.springer.com/">> \o DoiSpringer]
PubOther    == [title |-> TitleA, author |-> AuthorA, pub_year |-> <<"2025">>,
                citation |-> <<"V">>, pub_url |-> <<"https://doi.org/">> \o DoiOther]
PubPlain    == [title |-> TitleA, author |-> AuthorA, pub_year |-> <<"2025">>,
                citation |-> <<"V">>, pub_url |-> EmptyStr]
PubArxivId  == [title |-> TitleA, author |-> AuthorA, pub_year |-> <<"2025">>,
                citation |-> <<"arXiv", " ", "preprint", " ", "arXiv", ":", "2101.00001">>,
                pub_url |-> EmptyStr]
PubArxiv    == [title |-> TitleA, author |-> AuthorA, pub_year |-> <<"2025">>,
                citation |-> <<"arXiv">>, pub_url |-> EmptyStr]
PubArxivLink == [title |-> TitleA, author |-> AuthorA, pub_year |-> <<"2025">>,
                 citation |-> EmptyStr, pub_url |-> <<"https://", "arxiv", ".org/a/smith">>]
PubNoTitle  == [title |-> <<" ">>, author |-> AuthorA, pub_year |-> <<"2025">>,
                citation |-> <<"V">>, pub_url |-> EmptyStr]
PubNoYear   == [title |-> TitleA, author |-> AuthorA, pub_year |-> EmptyStr,
                citation |-> <<"V">>, pub_url |-> EmptyStr]
PubOld      == [title |-> TitleA, author |-> AuthorA, pub_year |-> <<"2024">>,
                citation |-> <<"V">>, pub_url |-> EmptyStr]

\* a publication dated next year, listed first by a newest-first profile
PubNext == [PubPlain EXCEPT !.pub_year = <<"2027">>]

\* author.get("publications"): the profiles the loop is run on
PubLists ==
    {<<>>, <<PubAcm>>, <<PubSpringer>>, <<PubOther>>, <<PubPlain>>,
     <<PubArxivId>>, <<PubArxiv>>, <<PubArxivLink>>,
     <<PubAcm, PubAcm>>, <<PubPlain, PubPlain>>, <<PubOther, PubPlain>>,
     <<PubNoTitle, PubPlain>>, <<PubNoYear, PubArxivId>>,
     <<PubOld, PubPlain>>, <<PubArxiv, PubOld>>, <<PubNext, PubPlain>>}

\* what scholarly.bibtex may give: nothing, or an entry
ScholarEntry == [ENTRYTYPE |-> <<"article">>, ID |-> <<"smith2025deep">>,
                 title |-> TitleA, author |-> <<"Smith", ",", " ", "Ann">>,
                 year |-> <<"2025">>, journal |-> <<"V">>]
ScholarThesis == [ScholarEntry EXCEPT !.ENTRYTYPE = <<"phdthesis">>]
ScholarBibs == {EmptyBib, [kind |-> "bib", e |-> ScholarEntry], [kind |-> "bib", e |-> ScholarThesis]}

\* what the publisher exports may give for a DOI
PublisherEntry(doi) ==
    [ENTRYTYPE |-> <<"inproceedings">>, ID |-> <<"pub1">>, title |-> TitleA,
     year |-> <<"2025">>, booktitle |-> <<"B">>, doi |-> doi,
     url |-> <<"https://doi.org/">> \o doi]
PublisherBibs(doi) == {EmptyBib, [kind |-> "garbage"], [kind |-> "bib", e |-> PublisherEntry(doi)]}

\* what the Crossref works endpoint may give for a DOI: a failure, an empty
\* message, or a message
Failure == [kind |-> "exc"]
MsgOk(doi)       == [title |-> TitleA \o <<".">>, year |-> <<"2025">>, container |-> <<"V">>,
                     event |-> EmptyStr, abstract |-> <<"<", "p", ">", "s">>, DOI |-> doi]
MsgNear(doi)     == [MsgOk(doi) EXCEPT !.title = TitleNear, !.abstract = EmptyStr]
MsgTitleOff(doi) == [MsgOk(doi) EXCEPT !.title = TitleOff]
MsgYearOff(doi)  == [MsgOk(doi) EXCEPT !.year = <<"2024">>]
MsgVenueOff(doi) == [MsgOk(doi) EXCEPT !.container = EmptyStr, !.event = <<"W">>]
Messages(doi) == {CrNone, MsgOk(doi), MsgNear(doi), MsgTitleOff(doi), MsgYearOff(doi), MsgVenueOff(doi)}
LookupAnswers(doi) == {Failure} \cup {[kind |-> "msg", m |-> m] : m \in Messages(doi)}

\* what the Crossref transform endpoint may give for a DOI: a failure, no text
\* (a status other than 200), a text that is no BibTeX, or an entry
CrossrefEntry(doi) ==
    [ENTRYTYPE |-> <<"article">>, ID |-> <<"Smith_2025">>,
     title |-> <<"<", "i", ">">> \o TitleA, year |-> <<"2025">>, journal |-> <<"V">>,
     DOI |-> doi, url |-> <<"http://dx.doi.org/">> \o doi]
CrossrefEntryNoDoi == [ENTRYTYPE |-> <<"article">>, ID |-> <<"Smith_2025">>, title |-> TitleA]
TransformAnswers(doi) ==
    {Failure, EmptyBib, [kind |-> "garbage"],
     [kind |-> "bib", e |-> CrossrefEntry(doi)], [kind |-> "bib", e |-> CrossrefEntryNoDoi]}

\* what the Crossref title search may give: a failure or a list of items
SearchAnswers ==
    {Failure} \cup
    {[kind |-> "items", items |-> its] :
        its \in {<<>>, <<MsgOk(DoiOther)>>, <<MsgTitleOff(DoiOther)>>,
                 <<MsgOk(EmptyStr)>>, <<MsgNear(DoiAcm), MsgVenueOff(DoiOther)>>,
                 <<MsgNear(DoiAcm), MsgOk(DoiOther)>>}}

\* what the arXiv API may give for a title search and for an identifier
ArxivUrl(id) == <<"http://", "arxiv", ".org/abs/", id>>
ArxivSearchAnswers ==
    {Failure} \cup
    {[kind |-> "results", results |-> rs] :
        rs \in {<<>>, <<[title |-> TitleA, id |-> ArxivUrl("2101.00002")]>>,
                <<[title |-> TitleOff, id |-> ArxivUrl("2101.00001")]>>,
                <<[title |-> TitleA, id |-> EmptyStr]>>}}
ArxivMeta(id) == [title |-> TitleA, authors |-> <<"Ann", " ", "Smith", " ", "and", " ", "Bo", " ", "Lee">>,
                  year |-> <<"2025">>, url |-> ArxivUrl(id), abstract |-> <<"s">>,
                  primary_category |-> <<"cs.CV">>]
ArxivIdAnswers(id) == {Failure, [kind |-> "meta", m |-> NoMeta], [kind |-> "meta", m |-> ArxivMeta(id)]}

\* the locals of one iteration of the loop, and what the iteration has done:
\* calls lists the sources queried, accepted names the source whose record
\* main took, doi_answer is what the lookup by the seed's DOI returned
NewCur ==
    [seeded |-> FALSE, done |-> FALSE,
     title |-> EmptyStr, year |-> EmptyStr, authors |-> EmptyStr, venue |-> EmptyStr,
     link |-> EmptyStr, citation |-> EmptyStr, scholar_bibtex |-> EmptyBib,
     arxiv_id |-> EmptyStr, doi |-> EmptyStr, best_doi |-> EmptyStr,
     chosen_entry |-> EmptyDict, crossref_bib |-> EmptyBib, crossref_msg |-> CrNone,
     calls |-> <<>>, accepted |-> "", doi_answer |-> Failure,
     best |-> NoBest, arxiv_answer |-> Failure]

Called(c, source) == [c EXCEPT !.calls = Append(@, source)]

\* main, step 3: if cr_abs: chosen_entry["abstract"] = cr_abs
WithAbstract(built, cr_abs) ==
    IF cr_abs # EmptyStr THEN Put(built, "abstract", cr_abs) ELSE built

\* main, step 3: a Crossref BibTeX replaces whatever was chosen before
Step3(c, cr_abs) ==
    IF NonEmptyText(c.crossref_bib)
    THEN WithAbstract(build_entry_keep_all_fields(c.crossref_bib, c.title, c.venue, c.year,
                                                  c.link, cr_abs), cr_abs)
    ELSE c.chosen_entry

\* main, step 4: the Scholar BibTeX, when nothing is chosen
Step4(c, e3) ==
    IF e3 = EmptyDict /\ NonEmptyText(c.scholar_bibtex)
    THEN build_entry_keep_all_fields(c.scholar_bibtex, c.title, c.venue, c.year, c.link, EmptyStr)
    ELSE e3

\* main, step 5: the minimal entry, when still nothing is chosen
Step5(c, e4) ==
    IF e4 = EmptyDict THEN minimal_entry(c.title, c.authors, c.year, c.venue, c.link) ELSE e4

\* main, steps 3 to 5: the entry appended for a seed that is not arXiv
ChosenEntry(c) ==
    Step5(c, Step4(c, Step3(c, strip_html_tags(c.crossref_msg.abstract))))

\* a step of the loop body ends either at the next request (pc) or at
\* entries.append / time.sleep(1.0) (pc = "append")
Append345(c) == [pc |-> "append", c |-> [c EXCEPT !.chosen_entry = ChosenEntry(c)]]

AppendArxiv(c, arxiv_meta) ==
    [pc |-> "append",
     c  |-> [c EXCEPT !.chosen_entry =
                 build_arxiv_bib_entry(c.title, c.year, c.venue, c.link, c.authors, arxiv_meta)]]

\* main, step 2: the title search is entered whenever crossref_bib is empty
AfterDoiPath(c) ==
    IF NonEmptyText(c.crossref_bib) \/ normalize_title(c.title) = EmptyStr
    THEN Append345(c)
    ELSE [pc |-> "cr_search", c |-> c]

\* main: the lookup by DOI is entered when nothing is chosen and there is a DOI
AfterSpringer(c) ==
    IF c.chosen_entry = EmptyDict /\ c.doi # EmptyStr
    THEN [pc |-> "cr_doi", c |-> c]
    ELSE AfterDoiPath(c)

\* main: Springer is asked when nothing is chosen and the DOI is a 10.1007 one
AfterAcm(c) ==
    IF c.chosen_entry = EmptyDict /\ c.doi # EmptyStr /\ Head(c.doi) = "10.1007/"
    THEN [pc |-> "springer1", c |-> c]
    ELSE AfterSpringer(c)

\* main: acm_dl_bibtex_by_doi sends a request only for a 10.1145 DOI
AfterDoi(c) ==
    IF c.doi # EmptyStr /\ Head(c.doi) = "10.1145/"
    THEN [pc |-> "acm", c |-> c]
    ELSE AfterAcm(c)

\* main: the arXiv decision and the extraction of the identifier or the DOI
AfterScholar(c) ==
    LET bib_cit  == normalize_ws(c.citation)
        btext    == BibText(c.scholar_bibtex)
        is_arxiv == \/ HasArxivWord(c.venue)
                    \/ HasArxivWord(bib_cit) \/ HasArxivWord(btext) \/ HasArxivWord(c.link)
        id1      == extract_arxiv_id_from_any(c.link)
        id2      == extract_arxiv_id_from_any(btext)
        id3      == extract_arxiv_id_from_any(c.citation)
        arxiv_id == IF id1 # EmptyStr THEN id1 ELSE IF id2 # EmptyStr THEN id2 ELSE id3
        d1       == extract_doi(c.link)
        d2       == extract_doi(btext)
        d3       == extract_doi(FieldsJson(bibtex_to_fields(c.scholar_bibtex)))
        doi      == IF d1 # EmptyStr THEN d1 ELSE IF d2 # EmptyStr THEN d2 ELSE d3
    IN  IF is_arxiv
        THEN IF arxiv_id # EmptyStr
             THEN [pc |-> "arxiv_id", c |-> [c EXCEPT !.arxiv_id = arxiv_id]]
             ELSE IF c.authors # EmptyStr /\ Split(Before(c.authors, ",")) = <<>>
                  THEN AppendArxiv(c, NoMeta)
                  ELSE [pc |-> "arxiv_search", c |-> c]
        ELSE AfterDoi([c EXCEPT !.doi = doi])

\* the answer a source gives to a request: any answer in a first or single
\* run; in a second run the answer the same request got in the first
Answer(a) ==
    /\ run = 2 => (Len(answers) < Len(run1.answers) /\ a = run1.answers[Len(answers) + 1])
    /\ answers' = IF run = 0 THEN answers ELSE Append(answers, a)

\* a single run: nothing is recorded for a second one
IdleRerun ==
    /\ run = 0
    /\ run1 = None
    /\ answers = <<>>

\* the end of a step: the next request, or entries.append(entry) and
\* time.sleep(1.0) and the next iteration
Goto(r) ==
    IF r.pc = "append"
    THEN /\ entries' = Append(entries, r.c.chosen_entry)
         /\ sleeps' = sleeps + 1
         /\ idx' = idx + 1
         /\ pc' = "start"
         /\ cur' = [r.c EXCEPT !.done = TRUE]
    ELSE /\ pc' = r.pc
         /\ cur' = r.c
         /\ UNCHANGED <<entries, sleeps, idx>>

InitMainOn(profiles) ==
    /\ pubs \in profiles
    /\ idx = 0
    /\ pc = "begin"
    /\ cur = NewCur
    /\ entries = <<>>
    /\ sleeps = 0
    /\ outfile = None

InitMain == InitMainOn(PubLists)

\* the variables of main while another operation is under study
IdleMain ==
    /\ pubs = <<>>
    /\ idx = 0
    /\ pc = "idle"
    /\ cur = NewCur
    /\ entries = <<>>
    /\ sleeps = 0
    /\ outfile = None

\* main up to the loop: the profile is fetched, entries = [] and the loop
\* starts at the first publication
BeginMain_keep_entries ==
    /\ pc = "begin"
    /\ pc' = "start"
    /\ idx' = 0
    /\ cur' = NewCur
    /\ sleeps' = 0
    /\ UNCHANGED <<entries, pubs, outfile, keyVars, mergeVars, testVars, updVars, fnVars, rerunVars>>

BeginMain ==
    /\ pc = "begin"
    /\ pc' = "start"
    /\ entries' = <<>>
    /\ idx' = 0
    /\ cur' = NewCur
    /\ sleeps' = 0
    /\ UNCHANGED <<pubs, outfile, keyVars, mergeVars, testVars, updVars, fnVars, rerunVars>>

\* for ... in enumerate(pubs): a seed without title or without a year that
\* int() accepts is passed over (continue)
SkipSeed ==
    /\ pc = "start" /\ idx < Len(pubs)
    /\ pick_title(pubs[idx + 1]) = EmptyStr \/ ~ParseInt(pick_year(pubs[idx + 1])).ok
    /\ idx' = idx + 1
    /\ cur' = NewCur
    /\ UNCHANGED <<pubs, pc, entries, sleeps, outfile, keyVars, mergeVars, testVars, updVars, fnVars, rerunVars>>

\* a seed whose year is outside the window ends the loop (break)
StopAtOldSeed ==
    /\ pc = "start" /\ idx < Len(pubs)
    /\ pick_title(pubs[idx + 1]) # EmptyStr
    /\ ParseInt(pick_year(pubs[idx + 1])).ok
    /\ ParseInt(pick_year(pubs[idx + 1])).val \notin allowed_years
    /\ pc' = "write"
    /\ cur' = NewCur
    /\ UNCHANGED <<pubs, idx, entries, sleeps, outfile, keyVars, mergeVars, testVars, updVars, fnVars, rerunVars>>

\* a seed inside the window: the pickers run, the next step asks Scholar
StartSeed ==
    /\ pc = "start" /\ idx < Len(pubs)
    /\ pick_title(pubs[idx + 1]) # EmptyStr
    /\ ParseInt(pick_year(pubs[idx + 1])).ok
    /\ ParseInt(pick_year(pubs[idx + 1])).val \in allowed_years
    /\ LET p == pubs[idx + 1]
       IN  cur' = [NewCur EXCEPT !.seeded = TRUE, !.title = pick_title(p), !.year = pick_year(p),
                                 !.authors = pick_authors(p), !.venue = pick_venue(p),
                                 !.link = pick_link(p), !.citation = p.citation]
    /\ pc' = "scholar"
    /\ UNCHANGED <<pubs, idx, entries, sleeps, outfile, keyVars, mergeVars, testVars, updVars, fnVars, rerunVars>>

\* get_bibtex_with_fallback answers (its failures are an empty text)
ScholarBibtex ==
    /\ pc = "scholar"
    /\ \E b \in ScholarBibs :
        /\ Answer(b)
        /\ Goto(AfterScholar([Called(cur, "scholar") EXCEPT !.scholar_bibtex = b]))
    /\ UNCHANGED <<pubs, outfile, keyVars, mergeVars, testVars, updVars, fnVars, run, run1>>

\* arxiv_api_query_by_id(arxiv_id) for the identifier found in the seed
ArxivById ==
    /\ pc = "arxiv_id"
    /\ \E a \in ArxivIdAnswers(cur.arxiv_id[1]) :
        /\ Answer(a)
        /\ LET c == Called(cur, "arxiv")
           IN  IF a.kind = "exc" THEN Goto(AppendArxiv(c, NoMeta))
               ELSE Goto(AppendArxiv([c EXCEPT !.accepted = "arxiv"], a.m))
    /\ UNCHANGED <<pubs, outfile, keyVars, mergeVars, testVars, updVars, fnVars, run, run1>>

\* arxiv_find_best_by_title(title, first_author=authors)
ArxivSearch ==
    /\ pc = "arxiv_search"
    /\ \E a \in ArxivSearchAnswers :
        /\ Answer(a)
        /\ LET c    == [Called(cur, "arxiv_search") EXCEPT !.arxiv_answer = a]
               best == IF a.kind = "exc" THEN NoBest ELSE arxiv_find_best_by_title(c.title, a.results)
           IN  IF best.arxiv_id # EmptyStr
               THEN Goto([pc |-> "arxiv_best",
                          c  |-> [c EXCEPT !.arxiv_id = best.arxiv_id, !.best = best]])
               ELSE Goto(AppendArxiv([c EXCEPT !.best = best], NoMeta))
    /\ UNCHANGED <<pubs, outfile, keyVars, mergeVars, testVars, updVars, fnVars, run, run1>>

\* arxiv_api_query_by_id(best["arxiv_id"])
ArxivByBestId ==
    /\ pc = "arxiv_best"
    /\ \E a \in ArxivIdAnswers(cur.arxiv_id[1]) :
        /\ Answer(a)
        /\ LET c == Called(cur, "arxiv")
           IN  IF a.kind = "exc" THEN Goto(AppendArxiv(c, NoMeta))
               ELSE Goto(AppendArxiv([c EXCEPT !.accepted = "arxiv"], a.m))
    /\ UNCHANGED <<pubs, outfile, keyVars, mergeVars, testVars, updVars, fnVars, run, run1>>

\* what main does with the text a publisher export returned
TakePublisher(c, source, bib) ==
    LET built == build_entry_keep_all_fields(bib, c.title, c.venue, c.year, c.link, EmptyStr)
    IN  IF NonEmptyText(bib) /\ built # EmptyDict
        THEN [c EXCEPT !.chosen_entry = built, !.accepted = source]
        ELSE c

\* acm_dl_bibtex_by_doi(doi): its failures are an empty text
AcmExport ==
    /\ pc = "acm"
    /\ \E b \in PublisherBibs(cur.doi) :
        /\ Answer(b)
        /\ Goto(AfterAcm(TakePublisher(Called(cur, "acm"), "acm", b)))
    /\ UNCHANGED <<pubs, outfile, keyVars, mergeVars, testVars, updVars, fnVars, run, run1>>

\* springer_bibtex_by_doi(doi), first candidate URL
SpringerExport ==
    /\ pc = "springer1"
    /\ \E b \in PublisherBibs(cur.doi) :
        /\ Answer(b)
        /\ LET c == Called(cur, "springer")
           IN  Goto(IF NonEmptyText(b) THEN AfterSpringer(TakePublisher(c, "springer", b))
                    ELSE [pc |-> "springer2", c |-> c])
    /\ UNCHANGED <<pubs, outfile, keyVars, mergeVars, testVars, updVars, fnVars, run, run1>>

\* springer_bibtex_by_doi(doi), second candidate URL
SpringerExportQuoted ==
    /\ pc = "springer2"
    /\ \E b \in PublisherBibs(cur.doi) :
        /\ Answer(b)
        /\ Goto(AfterSpringer(TakePublisher(Called(cur, "springer"), "springer", b)))
    /\ UNCHANGED <<pubs, outfile, keyVars, mergeVars, testVars, updVars, fnVars, run, run1>>

\* crossref_lookup_by_doi(doi) and the checks on its message
CrossrefByDoi ==
    /\ pc = "cr_doi"
    /\ \E a \in LookupAnswers(cur.doi) :
        /\ Answer(a)
        /\ LET c == [Called(cur, "crossref_doi") EXCEPT !.doi_answer = a]
           IN  Goto(IF a.kind # "exc" /\ DoiRecordOk(c.title, c.year, c.venue, a.m)
                    THEN [pc |-> "cr_transform", c |-> [c EXCEPT !.crossref_msg = a.m]]
                    ELSE AfterDoiPath([c EXCEPT !.crossref_msg =
                                           IF a.kind = "exc" THEN @ ELSE a.m]))
    /\ UNCHANGED <<pubs, outfile, keyVars, mergeVars, testVars, updVars, fnVars, run, run1>>

\* crossref_bibtex_transform(doi) for the record that passed the checks
CrossrefTransformDoi ==
    /\ pc = "cr_transform"
    /\ \E a \in TransformAnswers(cur.doi) :
        /\ Answer(a)
        /\ LET c == Called(cur, "crossref_transform")
           IN  Goto(AfterDoiPath(
                   IF a.kind = "exc" THEN [c EXCEPT !.crossref_msg = CrNone]
                   ELSE IF NonEmptyText(a)
                        THEN [c EXCEPT !.crossref_bib = a, !.accepted = "crossref_doi"]
                        ELSE c))
    /\ UNCHANGED <<pubs, outfile, keyVars, mergeVars, testVars, updVars, fnVars, run, run1>>

\* main: a best match with a DOI goes on to the transform request
AfterSearch(c, best_doi) ==
    IF best_doi # EmptyStr
    THEN [pc |-> "cr_transform_best", c |-> [c EXCEPT !.best_doi = best_doi]]
    ELSE Append345(c)

\* crossref_search_best(title, year, venue)
CrossrefSearch ==
    /\ pc = "cr_search"
    /\ \E a \in SearchAnswers :
        /\ Answer(a)
        /\ Goto(AfterSearch(Called(cur, "crossref_search"),
                            IF a.kind = "exc" THEN EmptyStr
                            ELSE strip(crossref_search_best(cur.title, cur.year, cur.venue,
                                                            a.items).DOI)))
    /\ UNCHANGED <<pubs, outfile, keyVars, mergeVars, testVars, updVars, fnVars, run, run1>>

\* crossref_bibtex_transform(best_doi)
CrossrefTransformBest ==
    /\ pc = "cr_transform_best"
    /\ \E a \in TransformAnswers(cur.best_doi) :
        /\ Answer(a)
        /\ LET c == Called(cur, "crossref_transform")
           IN  Goto(IF a.kind = "exc" THEN Append345(c)
                    ELSE [pc |-> "cr_lookup_best", c |-> [c EXCEPT !.crossref_bib = a]])
    /\ UNCHANGED <<pubs, outfile, keyVars, mergeVars, testVars, updVars, fnVars, run, run1>>

\* crossref_lookup_by_doi(best_doi), for the abstract
CrossrefLookupBest ==
    /\ pc = "cr_lookup_best"
    /\ \E a \in LookupAnswers(cur.best_doi) :
        /\ Answer(a)
        /\ LET c == Called(cur, "crossref_doi")
           IN  Goto(Append345([c EXCEPT !.crossref_msg = IF a.kind = "exc" THEN CrNone ELSE a.m,
                                        !.accepted = IF NonEmptyText(c.crossref_bib)
                                                     THEN "crossref_search" ELSE @]))
    /\ UNCHANGED <<pubs, outfile, keyVars, mergeVars, testVars, updVars, fnVars, run, run1>>

\* BibTexWriter.write reads entry['ENTRYTYPE'] and entry['ID'] of every entry
Writable == \A i \in 1..Len(entries) : {"ENTRYTYPE", "ID"} \subseteq DOMAIN entries[i]

\* after the loop: the entries are written to OUT_BIB_PATH
WriteOutput ==
    /\ pc = "write" \/ (pc = "start" /\ idx = Len(pubs))
    /\ Writable
    /\ outfile' = entries
    /\ pc' = "done"
    /\ UNCHANGED <<pubs, idx, cur, entries, sleeps, keyVars, mergeVars, testVars, updVars, fnVars, rerunVars>>

\* after the loop: writer.write(db) raises KeyError on an entry without
\* ENTRYTYPE or ID, before the file is opened
WriteRaises ==
    /\ pc = "write" \/ (pc = "start" /\ idx = Len(pubs))
    /\ ~Writable
    /\ pc' = "aborted"
    /\ UNCHANGED <<pubs, idx, cur, entries, sleeps, outfile, keyVars, mergeVars, testVars, updVars, fnVars, rerunVars>>

-----------------------------------------------------------------------------
(* test.py: records, the Crossref and arXiv adapters, and main *)

\* "".join(tokens)
RECURSIVE Flatten(_)
Flatten(s) == IF s = <<>> THEN "" ELSE Head(s) \o Flatten(Tail(s))

\* test.py safe_str on a string or None
safe_str(x) == IF x = None THEN EmptyStr ELSE strip(x)

\* test.py normalize_ws: runs of blanks become one blank, blanks around a
\* newline go, and the ends are trimmed
RECURSIVE SquashBlanks(_)
SquashBlanks(s) ==
    IF s = <<>> THEN <<>>
    ELSE IF Head(s) = " " /\ Len(s) >= 2 /\ s[2] \in {" ", "\n"} THEN SquashBlanks(Tail(s))
    ELSE IF Head(s) = "\n" /\ Len(s) >= 2 /\ s[2] \in {" ", "\n"}
         THEN SquashBlanks(<<"\n">> \o Tail(Tail(s)))
    ELSE <<Head(s)>> \o SquashBlanks(Tail(s))

normalize_ws_test(s) == strip(SquashBlanks(safe_str(s)))

\* the characters slug keeps: [a-z0-9]
SlugChars ==
    {"a", "b", "c", "d", "e", "f", "g", "h", "i", "j", "k", "l", "m",
     "n", "o", "p", "q", "r", "s", "t", "u", "v", "w", "x", "y", "z", "0", "1", "2", "3", "4", "5", "6", "7", "8", "9"}
SlugLen == 40

\* test.py slug (the strings here are sequences of single characters)
slug(s) ==
    LET kept == SelectSeq(lower(safe_str(s)), LAMBDA c : c \in SlugChars)
        cut  == SubSeq(kept, 1, SetMin({SlugLen, Len(kept)}))
    IN  IF cut # <<>> THEN cut ELSE <<"p", "u", "b">>

\* str.isdigit() on a year string
IsDigits(y) == Len(y) = 1 /\ y[1] \in YearToks

\* test.py make_citekey
make_citekey(author_last, year, title) ==
    slug(author_last) \o (IF IsDigits(year) THEN year ELSE <<"n", "d">>) \o slug(title)

\* test.py extract_arxiv_id: arxiv.org/abs/<id>, arxiv.org/pdf/<id> or
\* arxiv:<id> anywhere, else a text that is an identifier and nothing else
extract_arxiv_id(text) ==
    LET t == safe_str(text)
    IN  IF t = EmptyStr THEN EmptyStr
        ELSE IF extract_arxiv_id_from_any(t) # EmptyStr THEN extract_arxiv_id_from_any(t)
        ELSE IF Len(t) = 1 /\ t[1] \in ArxivIds THEN t
        ELSE EmptyStr

\* A Crossref message in test.py: DOI, title, author (a list of
\* [family, given]), the four date fields (year or ""), URL, container,
\* event, publisher, type (words), page, volume, issue, ISBN, ISSN, abstract
NoMsg ==
    [DOI |-> EmptyStr, title |-> EmptyStr, author |-> <<>>,
     published_print |-> EmptyStr, published_online |-> EmptyStr,
     issued |-> EmptyStr, created |-> EmptyStr, URL |-> EmptyStr,
     container |-> EmptyStr, event |-> EmptyStr, publisher |-> EmptyStr,
     type |-> EmptyStr, page |-> EmptyStr, volume |-> EmptyStr, issue |-> EmptyStr,
     ISBN |-> EmptyStr, ISSN |-> EmptyStr, abstract |-> EmptyStr]

\* test.py cr_pick_year
cr_pick_year(msg) ==
    LET dates == <<msg.published_print, msg.published_online, msg.issued, msg.created>>
        good  == {i \in 1..4 : dates[i] # EmptyStr /\ IsDigits(dates[i])}
    IN  IF good = {} THEN EmptyStr ELSE dates[SetMin(good)]

\* test.py cr_pick_authors
RECURSIVE AuthorParts(_)
AuthorParts(authors) ==
    IF authors = <<>> THEN <<>>
    ELSE LET family == safe_str(Head(authors).family)
             given  == safe_str(Head(authors).given)
             part   == IF family # EmptyStr /\ given # EmptyStr
                       THEN <<family \o <<",", " ">> \o given>>
                       ELSE IF family # EmptyStr THEN <<family>>
                       ELSE IF given # EmptyStr THEN <<given>> ELSE <<>>
         IN  part \o AuthorParts(Tail(authors))

cr_pick_authors(msg) == JoinAnd(AuthorParts(msg.author))

\* test.py cr_first_author_last
RECURSIVE FirstFamily(_)
FirstFamily(authors) ==
    IF authors = <<>> THEN <<"u", "n", "k", "n", "o", "w", "n">>
    ELSE IF safe_str(Head(authors).family) # EmptyStr THEN safe_str(Head(authors).family)
    ELSE FirstFamily(Tail(authors))

cr_first_author_last(msg) == FirstFamily(msg.author)

\* test.py cr_pick_url
cr_pick_url(msg, doi) ==
    IF safe_str(msg.URL) # EmptyStr THEN safe_str(msg.URL)
    ELSE IF doi # EmptyStr THEN <<"https://doi.org/">> \o doi ELSE EmptyStr

\* re.sub(r"<[^>]+>", "", a)
RECURSIVE RemoveTags(_)
RemoveTags(s) ==
    IF s = <<>> THEN <<>>
    ELSE LET j == FirstGt(s, 2)
         IN  IF Head(s) = "<" /\ j >= 3
             THEN RemoveTags(SubSeq(s, j + 1, Len(s)))
             ELSE <<Head(s)>> \o RemoveTags(Tail(s))

\* test.py cr_pick_abstract
cr_pick_abstract(msg) ==
    LET a == safe_str(msg.abstract)
    IN  IF a = EmptyStr THEN EmptyStr ELSE strip(CollapseWs(RemoveTags(a)))

\* test.py cr_guess_entrytype
cr_guess_entrytype(msg) ==
    LET t == Range(lower(safe_str(msg.type)))
    IN  IF "proceedings" \in t THEN <<"inproceedings">>
        ELSE IF "journal" \in t \/ "article" \in t THEN <<"article">>
        ELSE IF "chapter" \in t THEN <<"incollection">>
        ELSE IF "book" \in t THEN <<"book">>
        ELSE <<"misc">>

\* {k: normalize_ws(v) for k, v in entry.items() if safe_str(v)}
KeepNonEmpty(entry) ==
    [k \in {x \in DOMAIN entry : safe_str(entry[x]) # EmptyStr} |-> normalize_ws_test(entry[k])]

\* a venue choice that prefers the container title
cr_booktitle_container(event, container, publisher) ==
    IF container # EmptyStr THEN container
    ELSE IF event # EmptyStr THEN event ELSE publisher

\* crossref_to_bib_entry, inproceedings: the event name when present, else
\* the container title, else the publisher
cr_booktitle(event, container, publisher) ==
    IF event # EmptyStr THEN event
    ELSE IF container # EmptyStr THEN container ELSE publisher

\* test.py crossref_to_bib_entry
crossref_to_bib_entry(msg) ==
    LET doi       == safe_str(msg.DOI)
        title     == safe_str(msg.title)
        author    == cr_pick_authors(msg)
        year      == cr_pick_year(msg)
        url       == cr_pick_url(msg, doi)
        container == safe_str(msg.container)
        event     == safe_str(msg.event)
        publisher == safe_str(msg.publisher)
        isbn      == safe_str(msg.ISBN)
        entrytype == cr_guess_entrytype(msg)
        booktitle == cr_booktitle(event, container, publisher)
        full == [ENTRYTYPE |-> entrytype,
                 ID |-> make_citekey(cr_first_author_last(msg), year, title),
                 title |-> title, author |-> author, year |-> year,
                 booktitle |-> IF entrytype = <<"inproceedings">> THEN booktitle ELSE EmptyStr,
                 journal |-> IF entrytype # <<"inproceedings">> THEN container ELSE EmptyStr,
                 url |-> url, doi |-> doi, publisher |-> publisher,
                 pages |-> safe_str(msg.page), volume |-> safe_str(msg.volume),
                 number |-> safe_str(msg.issue),
                 isbn |-> IF entrytype \in {<<"book">>, <<"incollection">>, <<"inproceedings">>}
                          THEN isbn ELSE EmptyStr,
                 abstract |-> cr_pick_abstract(msg),
                 issn |-> safe_str(msg.ISSN)]
    IN  KeepNonEmpty(full)

\* test.py arxiv_get on a parsed feed [title, authors (a list), updated, id]:
\* the URL falls back to https://arxiv.org/abs/<id>
arxiv_get(arxiv_id, feed) ==
    LET url0 == CollapseWs(strip(feed.id))
        url1 == IF url0 = EmptyStr THEN <<"https://", "arxiv", ".org/abs/">> \o arxiv_id ELSE url0
        url  == [i \in 1..Len(url1) |-> IF url1[i] = ".org/pdf/" THEN ".org/abs/" ELSE url1[i]]
    IN  [title |-> strip(CollapseWs(strip(feed.title))),
         authors |-> feed.authors,
         year |-> IF IsDigits(feed.updated) THEN feed.updated ELSE EmptyStr,
         url |-> SelectSeq(url, LAMBDA c : c # ".pdf"),
         abstract |-> strip(CollapseWs(strip(feed.summary))),
         arxiv |-> arxiv_id]

\* test.py arxiv_to_bib_entry
arxiv_to_bib_entry(ax) ==
    LET arxiv_id   == safe_str(ax.arxiv)
        first_last == IF ax.authors # <<>>
                      THEN Split(ax.authors[1])[Len(Split(ax.authors[1]))]
                      ELSE <<"u", "n", "k", "n", "o", "w", "n">>
        full == [ENTRYTYPE |-> <<"article">>,
                 ID |-> make_citekey(first_last, safe_str(ax.year), safe_str(ax.title)),
                 title |-> safe_str(ax.title),
                 author |-> JoinAnd(ax.authors),
                 year |-> safe_str(ax.year),
                 journal |-> IF arxiv_id # EmptyStr
                             THEN <<"arXiv", " ", "preprint", " ", "arXiv", ":">> \o arxiv_id
                             ELSE <<"arXiv", " ", "preprint">>,
                 url |-> safe_str(ax.url),
                 eprint |-> arxiv_id,
                 archiveprefix |-> IF arxiv_id # EmptyStr THEN <<"arXiv">> ELSE EmptyStr,
                 abstract |-> safe_str(ax.abstract)]
    IN  KeepNonEmpty(full)

\* A record of RECORDS is [doi, url, arxiv, title], "" for a key it lacks.
\* rec.get("doi") or rec.get("url") or ""
FirstOf(a, b) == IF a # EmptyStr THEN a ELSE b

rec_doi(rec)      == extract_doi(safe_str(FirstOf(rec.doi, rec.url)))
rec_arxiv_id(rec) == extract_arxiv_id(safe_str(FirstOf(rec.arxiv, rec.url)))
rec_title(rec)    == safe_str(rec.title)

\* the records of the model
Family == <<"B", "a", "e">>
RecDoi         == [doi |-> DoiOther, url |-> EmptyStr, arxiv |-> EmptyStr, title |-> EmptyStr]
RecDoiTitle    == [doi |-> DoiOther, url |-> EmptyStr, arxiv |-> EmptyStr, title |-> TitleA]
RecDoiArxiv    == [doi |-> DoiAcm, url |-> EmptyStr, arxiv |-> <<"2101.00001">>, title |-> TitleA]
RecArxiv       == [doi |-> EmptyStr, url |-> EmptyStr, arxiv |-> <<"2101.00001">>, title |-> EmptyStr]
RecArxivUrl    == [doi |-> EmptyStr, url |-> ArxivUrl("2101.00002"), arxiv |-> EmptyStr, title |-> TitleA]
RecTitle       == [doi |-> EmptyStr, url |-> EmptyStr, arxiv |-> EmptyStr, title |-> TitleA]
RecNothing     == [doi |-> EmptyStr, url |-> <<"http://u">>, arxiv |-> EmptyStr, title |-> EmptyStr]

RecordLists ==
    {<<>>, <<RecDoi>>, <<RecDoiTitle>>, <<RecDoiArxiv>>, <<RecArxiv>>, <<RecArxivUrl>>,
     <<RecTitle>>, <<RecNothing>>,
     <<RecDoi, RecDoi>>, <<RecDoiTitle, RecTitle>>, <<RecTitle, RecTitle>>,
     <<RecArxiv, RecArxivUrl>>, <<RecNothing, RecDoi>>, <<RecDoiArxiv, RecArxiv>>}

\* what the Crossref works endpoint may give test.py for a DOI or a title
TestMsg(doi) ==
    [NoMsg EXCEPT !.DOI = doi, !.title = TitleA,
                  !.author = <<[family |-> Family, given |-> <<"A">>]>>,
                  !.issued = <<"2025">>, !.container = <<"V">>,
                  !.type = <<"journal", "-", "article">>]
TestMessages(doi) ==
    {NoMsg, TestMsg(doi),
     [TestMsg(doi) EXCEPT !.URL = <<"http://dx.doi.org/">> \o doi],
     [TestMsg(doi) EXCEPT !.type = <<"proceedings", "-", "article">>, !.event = <<"E">>,
                          !.abstract = <<"<", "p", ">", "s">>],
     [TestMsg(doi) EXCEPT !.type = <<"proceedings", "-", "article">>],
     [TestMsg(doi) EXCEPT !.DOI = <<"10.5555/", "X">>, !.title = TitleOff]}
TestLookupAnswers(doi) == {Failure} \cup {[kind |-> "msg", m |-> m] : m \in TestMessages(doi)}
TestSearchAnswers ==
    {Failure, [kind |-> "items", items |-> <<>>]}
        \cup {[kind |-> "items", items |-> <<m>>] : m \in TestMessages(DoiOther) \ {NoMsg}}

\* what the arXiv API may give test.py for an identifier: a failure or a feed
TestFeed(id) == [title |-> TitleA, authors |-> << <<"A", " ", "B", "a", "e">> >>,
                 updated |-> <<"2025">>, id |-> <<"http://", "arxiv", ".org/pdf/", id, ".pdf">>,
                 summary |-> <<"s">>]
EmptyFeed == [title |-> EmptyStr, authors |-> <<>>, updated |-> EmptyStr, id |-> EmptyStr,
              summary |-> EmptyStr]
TestArxivAnswers(id) == {Failure, [kind |-> "feed", f |-> EmptyFeed], [kind |-> "feed", f |-> TestFeed(id)]}

\* test.py entry_from_record once the source it asks has answered: "raise"
\* when the request failed, "none" for None, else the entry
entry_from_record(rec, answer) ==
    IF answer.kind = "exc" THEN [kind |-> "raise"]
    ELSE IF rec_doi(rec) # EmptyStr
         THEN [kind |-> "entry", e |-> crossref_to_bib_entry(answer.m)]
    ELSE IF rec_arxiv_id(rec) # EmptyStr
         THEN [kind |-> "entry", e |-> arxiv_to_bib_entry(arxiv_get(rec_arxiv_id(rec), answer.f))]
    ELSE IF rec_title(rec) # EmptyStr /\ answer.kind = "items" /\ answer.items # <<>>
         THEN [kind |-> "entry", e |-> crossref_to_bib_entry(answer.items[1])]
    ELSE [kind |-> "none"]

\* test.py main, the body of the loop after entry_from_record: a failure or
\* None is logged and the record passed over, an entry gets its unique ID
\* and is appended; time.sleep(SLEEP_SEC) in every case
TakeRecord(source, a, r) ==
    /\ t_i' = t_i + 1
    /\ t_sleeps' = t_sleeps + 1
    /\ t_log' = Append(t_log, [calls |-> source, answer |-> a, outcome |-> r.kind])
    /\ IF r.kind = "entry"
       THEN LET base == IF "ID" \in DOMAIN r.e THEN Flatten(r.e["ID"]) ELSE "pub"
                u    == unique_id_test(base, t_used)
            IN  /\ t_used' = u.used
                /\ t_entries' = Append(t_entries, Put(r.e, "ID", <<u.id>>))
       ELSE UNCHANGED <<t_used, t_entries>>
    /\ UNCHANGED <<t_records, t_pc, t_file>>

InitTest ==
    /\ t_records \in RecordLists
    /\ t_i = 0
    /\ t_pc = "start"
    /\ t_entries = <<>>
    /\ t_used = {}
    /\ t_sleeps = 0
    /\ t_log = <<>>
    /\ t_file = None

\* the variables of test.py while another program is under study
IdleTest ==
    /\ t_records = <<>>
    /\ t_i = 0
    /\ t_pc = "idle"
    /\ t_entries = <<>>
    /\ t_used = {}
    /\ t_sleeps = 0
    /\ t_log = <<>>
    /\ t_file = None

\* main: raise SystemExit when RECORDS is empty
TestExitEmpty ==
    /\ t_pc = "start" /\ t_records = <<>>
    /\ t_pc' = "exit"
    /\ UNCHANGED <<t_records, t_i, t_entries, t_used, t_sleeps, t_log, t_file, mainVars, keyVars, mergeVars, updVars, fnVars, rerunVars>>

\* main: the session is set up and the loop entered
TestBegin ==
    /\ t_pc = "start" /\ t_records # <<>>
    /\ t_pc' = "loop"
    /\ t_used' = {}
    /\ t_entries' = <<>>
    /\ t_i' = 0
    /\ t_sleeps' = 0
    /\ t_log' = <<>>
    /\ UNCHANGED <<t_records, t_file, mainVars, keyVars, mergeVars, updVars, fnVars, rerunVars>>

\* a record with a DOI: crossref_get(doi)
TestByDoi ==
    /\ t_pc = "loop" /\ t_i < Len(t_records)
    /\ rec_doi(t_records[t_i + 1]) # EmptyStr
    /\ \E a \in TestLookupAnswers(rec_doi(t_records[t_i + 1])) :
        /\ Answer(a)
        /\ TakeRecord(<<"crossref_doi">>, a, entry_from_record(t_records[t_i + 1], a))
    /\ UNCHANGED <<mainVars, keyVars, mergeVars, updVars, fnVars, run, run1>>

\* a record without DOI but with an arXiv identifier: arxiv_get(arxiv_id)
TestByArxiv ==
    /\ t_pc = "loop" /\ t_i < Len(t_records)
    /\ rec_doi(t_records[t_i + 1]) = EmptyStr
    /\ rec_arxiv_id(t_records[t_i + 1]) # EmptyStr
    /\ \E a \in TestArxivAnswers(rec_arxiv_id(t_records[t_i + 1])[1]) :
        /\ Answer(a)
        /\ TakeRecord(<<"arxiv">>, a, entry_from_record(t_records[t_i + 1], a))
    /\ UNCHANGED <<mainVars, keyVars, mergeVars, updVars, fnVars, run, run1>>

\* a record with a title only: crossref_search_by_title(title)
TestByTitle ==
    /\ t_pc = "loop" /\ t_i < Len(t_records)
    /\ rec_doi(t_records[t_i + 1]) = EmptyStr
    /\ rec_arxiv_id(t_records[t_i + 1]) = EmptyStr
    /\ rec_title(t_records[t_i + 1]) # EmptyStr
    /\ \E a \in TestSearchAnswers :
        /\ Answer(a)
        /\ TakeRecord(<<"crossref_search">>, a, entry_from_record(t_records[t_i + 1], a))
    /\ UNCHANGED <<mainVars, keyVars, mergeVars, updVars, fnVars, run, run1>>

\* a record with none of the three: entry_from_record returns None
TestNoSource ==
    /\ t_pc = "loop" /\ t_i < Len(t_records)
    /\ rec_doi(t_records[t_i + 1]) = EmptyStr
    /\ rec_arxiv_id(t_records[t_i + 1]) = EmptyStr
    /\ rec_title(t_records[t_i + 1]) = EmptyStr
    /\ TakeRecord(<<>>, [kind |-> "none"], [kind |-> "none"])
    /\ UNCHANGED <<mainVars, keyVars, mergeVars, updVars, fnVars, rerunVars>>

\* after the loop: the entries are written to OUT_BIB
TestWrite ==
    /\ t_pc = "loop" /\ t_i = Len(t_records)
    /\ t_file' = t_entries
    /\ t_pc' = "done"
    /\ UNCHANGED <<t_records, t_i, t_entries, t_used, t_sleeps, t_log, mainVars, keyVars, mergeVars, updVars, fnVars, rerunVars>>

\* the record main has just dealt with was fetched by its DOI and the
\* registry's record is a proceedings article with a container title
ProceedingsFetched ==
    /\ t_log # <<>>
    /\ t_log[Len(t_log)].calls = <<"crossref_doi">>
    /\ t_log[Len(t_log)].answer.kind = "msg"
    /\ t_log[Len(t_log)].answer.m.type = <<"proceedings", "-", "article">>
    /\ t_log[Len(t_log)].answer.m.container # EmptyStr

\* C15 as stated: the record is then an inproceedings entry whose booktitle
\* is the container title, with no journal field.
C15_BooktitleIsContainer ==
    ProceedingsFetched =>
        /\ t_entries[Len(t_entries)]["ENTRYTYPE"] = <<"inproceedings">>
        /\ Get(t_entries[Len(t_entries)], "booktitle")
             = normalize_ws_test(t_log[Len(t_log)].answer.m.container)
        /\ "journal" \notin DOMAIN t_entries[Len(t_entries)]

\* C15 as amended: the record is then an inproceedings entry with no journal
\* field whose booktitle is the event name when the registry's record has
\* one, and the container title otherwise.
C15_BooktitleIsEventOrContainer ==
    ProceedingsFetched =>
        /\ t_entries[Len(t_entries)]["ENTRYTYPE"] = <<"inproceedings">>
        /\ Get(t_entries[Len(t_entries)], "booktitle")
             = normalize_ws_test(IF safe_str(t_log[Len(t_log)].answer.m.event) # EmptyStr
                                 THEN t_log[Len(t_log)].answer.m.event
                                 ELSE t_log[Len(t_log)].answer.m.container)
        /\ "journal" \notin DOMAIN t_entries[Len(t_entries)]

\* C15 witness: a proceedings article with both an event name and a container
\* title was fetched by DOI and its record has the event name as booktitle.
C15_Witness ==
    /\ ProceedingsFetched
    /\ t_log[Len(t_log)].answer.m.event = <<"E">>
    /\ t_entries[Len(t_entries)]["booktitle"] = <<"E">>

\* the sources entry_from_record could still ask for a record after the one
\* named failed: arXiv after the DOI lookup, the title search after either
LaterApplicable(rec, source) ==
    \/ source = "crossref_doi" /\ (rec_arxiv_id(rec) # EmptyStr \/ rec_title(rec) # EmptyStr)
    \/ source = "arxiv" /\ rec_title(rec) # EmptyStr

\* C7: when the source asked for a record fails and a later source is still
\* applicable to the record, the failure is swallowed and the next source is
\* asked instead of the record being dropped.
C7_FailureFallsThrough ==
    \A k \in 1..Len(t_log) :
        (/\ t_log[k].outcome = "raise"
         /\ LaterApplicable(t_records[k], t_log[k].calls[1]))
            => Len(t_log[k].calls) > 1

-----------------------------------------------------------------------------
(* update_publications_ts.py: pickers and main, from the loop over the
   publications on (the migration of dynamic.ts has returned) *)

\* the character U+2026 that marks a venue Scholar cut short
Ellipsis == "&hellip;"

\* re.sub(r"\s+", " ", s).strip()
squeeze(s) == strip(CollapseWs(s))

\* re.split(r"\s+and\s+", s): the pieces between " and "
RECURSIVE SplitAnd(_)
SplitAnd(s) ==
    LET h == BeforeAnd(s)
    IN  IF Len(h) = Len(s) THEN <<s>>
        ELSE <<h>> \o SplitAnd(SubSeq(s, Len(h) + 4, Len(s)))

\* ", ".join(parts)
RECURSIVE JoinComma(_)
JoinComma(parts) ==
    IF parts = <<>> THEN <<>>
    ELSE IF Len(parts) = 1 THEN parts[1]
    ELSE parts[1] \o <<",", " ">> \o JoinComma(Tail(parts))

\* update_publications_ts.py normalize_authors
normalize_authors(author_str) ==
    IF author_str = EmptyStr THEN EmptyStr
    ELSE JoinComma(StripNonEmpty(SplitAnd(squeeze(author_str))))

\* update_publications_ts.py has_good_venue_fields
has_good_venue_fields(fields) ==
    \E k \in {"booktitle", "journal", "eventtitle", "series"} : strip(Get(fields, k)) # EmptyStr

\* the first of the keys, in order, whose stripped value is non-empty
RECURSIVE FirstField(_, _)
FirstField(fields, ks) ==
    IF ks = <<>> THEN EmptyStr
    ELSE IF strip(Get(fields, Head(ks))) # EmptyStr THEN strip(Get(fields, Head(ks)))
    ELSE FirstField(fields, Tail(ks))

\* update_publications_ts.py pick_venue_from_bibtex
pick_venue_from_bibtex(fields, fallback) ==
    LET v == FirstField(fields, <<"booktitle", "journal", "eventtitle", "container-title",
                                  "series", "publisher">>)
    IN  IF v # EmptyStr THEN v ELSE fallback

\* update_publications_ts.py pick_year_from_bibtex (date[:4] is the date's
\* first token when that is a year)
pick_year_from_bibtex(fields, fallback) ==
    LET y    == strip(Get(fields, "year"))
        date == strip(Get(fields, "date"))
    IN  IF y # EmptyStr THEN y
        ELSE IF date # EmptyStr /\ date[1] \in YearToks THEN <<date[1]>>
        ELSE fallback

\* update_publications_ts.py pick_authors_from_bibtex
pick_authors_from_bibtex(fields, fallback) ==
    LET a == strip(Get(fields, "author"))
    IN  IF a # EmptyStr THEN normalize_authors(a) ELSE normalize_authors(fallback)

\* update_publications_ts.py pick_title_from_bibtex
pick_title_from_bibtex(fields, fallback) ==
    LET t == strip(Get(fields, "title"))
    IN  IF t # EmptyStr THEN t ELSE fallback

\* update_publications_ts.py pick_url_from_bibtex
pick_url_from_bibtex(fields, fallback) ==
    strip(IF Get(fields, "url") # EmptyStr THEN Get(fields, "url") ELSE fallback)

\* update_publications_ts.py pick_title, pick_authors, pick_link, pick_year
pick_title_ts(p)   == strip(p.title)
pick_authors_ts(p) == strip(p.author)
pick_link_ts(p)    == strip(p.pub_url)
pick_year_ts(p)    == IF p.pub_year = None THEN EmptyStr ELSE p.pub_year

\* re.sub(r"\s+\bpp?\.\s*\d+.*$", "", cit2): from " pp. <digits>" on
PageWords == {"pp.", "p."}
PageNumbers == {"12"}
RECURSIVE DropPages(_)
DropPages(s) ==
    IF s = <<>> THEN <<>>
    ELSE IF /\ Head(s) \in Whitespace
            /\ LET r == lstrip(s)
               IN  /\ r # <<>> /\ Head(r) \in PageWords
                   /\ lstrip(Tail(r)) # <<>> /\ Head(lstrip(Tail(r))) \in PageNumbers
         THEN <<>>
    ELSE <<Head(s)>> \o DropPages(Tail(s))

\* update_publications_ts.py pick_venue
pick_venue_ts(p) ==
    LET cit  == squeeze(strip(p.citation))
        head == strip(Before(cit, ","))
    IN  IF strip(p.citation) = EmptyStr THEN EmptyStr
        ELSE IF head # EmptyStr /\ lower(head) # <<"unknown">> THEN head
        ELSE strip(DropPages(strip(DropTrailingYear(cit))))

\* update_publications_ts.py venue_from_crossref
venue_from_crossref(msg) ==
    IF strip(msg.container) # EmptyStr THEN strip(msg.container) ELSE strip(msg.event)

\* update_publications_ts.py ts_escape
TsEscapeTok(c) ==
    CASE c = "\\" -> <<"\\", "\\">>
      [] c = "'"  -> <<"\\", "'">>
      [] c = "\r" -> <<>>
      [] c = "\n" -> <<"\\", "n">>
      [] OTHER    -> <<c>>

RECURSIVE ts_escape(_)
ts_escape(s) == IF s = <<>> THEN <<>> ELSE TsEscapeTok(Head(s)) \o ts_escape(Tail(s))

\* year_key: int(r["year"]), -1 when that fails
year_key(r) == IF ParseInt(r.year).ok THEN ParseInt(r.year).val ELSE -1

\* an insertion that puts a record before the records of its own year
RECURSIVE InsertByYear_first(_, _)
InsertByYear_first(sorted, r) ==
    IF sorted = <<>> THEN <<r>>
    ELSE IF year_key(Head(sorted)) > year_key(r)
         THEN <<Head(sorted)>> \o InsertByYear_first(Tail(sorted), r)
         ELSE <<r>> \o sorted

\* pubs.sort(key=year_key, reverse=True): stable, largest key first
RECURSIVE InsertByYear(_, _)
InsertByYear(sorted, r) ==
    IF sorted = <<>> THEN <<r>>
    ELSE IF year_key(Head(sorted)) >= year_key(r)
         THEN <<Head(sorted)>> \o InsertByYear(Tail(sorted), r)
         ELSE <<r>> \o sorted

RECURSIVE SortByYear(_)
SortByYear(rs) ==
    IF rs = <<>> THEN <<>>
    ELSE InsertByYear(SortByYear(SubSeq(rs, 1, Len(rs) - 1)), rs[Len(rs)])

\* one object of the exported array, as main writes it
TsObject(r) ==
    [title |-> ts_escape(r.title), authors |-> ts_escape(r.authors),
     venue |-> ts_escape(r.venue), year |-> ts_escape(r.year),
     paper |-> IF r.paper = None THEN None ELSE ts_escape(r.paper)]

\* allowed_years = {this_year, this_year - 1}
allowed_years_ts == {ThisYear, ThisYear - 1}

\* publications of the profile, as scholarly.fill leaves them
UPubPlain   == [title |-> TitleA, author |-> AuthorA, pub_year |-> <<"2026">>,
                citation |-> <<"V", ",", " ", "2026">>, pub_url |-> EmptyStr]
UPubDoi     == [title |-> TitleNear, author |-> AuthorA, pub_year |-> <<"2025">>,
                citation |-> EmptyStr, pub_url |-> <<"https://doi.org/">> \o DoiOther]
UPubCut     == [title |-> TitleOff, author |-> AuthorA, pub_year |-> <<"2025">>,
                citation |-> <<"P", Ellipsis, ",", " ", "2025">>,
                pub_url |-> <<"https://dl.acm.org/doi/">> \o DoiAcm]
UPubOld     == [UPubPlain EXCEPT !.pub_year = <<"2024">>]
UPubNoYear  == [UPubPlain EXCEPT !.pub_year = None]
UPubNoTitle == [UPubPlain EXCEPT !.title = <<" ">>]

UPubLists ==
    {<<>>, <<UPubPlain>>, <<UPubDoi>>, <<UPubCut>>, <<UPubOld>>, <<UPubNoYear>>, <<UPubNoTitle>>,
     <<UPubPlain, UPubDoi>>, <<UPubDoi, UPubPlain>>, <<UPubCut, UPubDoi>>,
     <<UPubOld, UPubPlain>>, <<UPubPlain, UPubNoYear>>, <<UPubNoTitle, UPubDoi>>,
     <<UPubDoi, UPubPlain, UPubCut>>}

\* what scholarly.bibtex may give: nothing, a full entry, an entry without
\* venue, an entry of another year
UScholarBibs ==
    {EmptyBib, [kind |-> "bib", e |-> ScholarEntry],
     [kind |-> "bib", e |-> [ENTRYTYPE |-> <<"article">>, ID |-> <<"k">>,
                             author |-> <<"Ann", " ", "Smith", " ", "and", " ", "Bo", " ", "Lee">>,
                             url |-> <<"https://doi.org/">> \o DoiSpringer]],
     [kind |-> "bib", e |-> [ENTRYTYPE |-> <<"article">>, ID |-> <<"k">>, year |-> <<"2024">>]]}

\* main's locals for one publication
NoUCur == [bibtex_str |-> EmptyBib, record |-> EmptyDict, doi |-> EmptyStr, raised |-> ""]

\* main, between scholarly.bibtex and the Crossref lookup: the fields (lost
\* when the diagnostic print reads title before its first assignment), the
\* pickers, the year checks and the record
UFields(b, title_var) ==
    LET fields == bibtex_to_fields(b)
    IN  IF (fields = EmptyDict \/ ~has_good_venue_fields(fields)) /\ title_var = None
        THEN EmptyDict ELSE fields

URecord(p, fields) ==
    LET paper == pick_url_from_bibtex(fields, pick_link_ts(p))
    IN  [title |-> pick_title_from_bibtex(fields, pick_title_ts(p)),
         authors |-> pick_authors_from_bibtex(fields, pick_authors_ts(p)),
         venue |-> pick_venue_from_bibtex(fields, pick_venue_ts(p)),
         year |-> pick_year_from_bibtex(fields, pick_year_ts(p)),
         paper |-> IF paper # EmptyStr THEN paper ELSE None]

\* pubs.append(record); time.sleep(1.0); next publication
UAppend(c, record) ==
    /\ u_out' = Append(u_out, record)
    /\ u_sleeps' = u_sleeps + 1
    /\ u_i' = u_i + 1
    /\ u_pc' = "start"
    /\ u_cur' = [c EXCEPT !.record = record]

InitUpd ==
    /\ u_pubs \in UPubLists
    /\ u_i = 0
    /\ u_pc = "start"
    /\ u_cur = NoUCur
    /\ u_title = None
    /\ u_out = <<>>
    /\ u_sleeps = 0
    /\ u_file = None
    /\ u_later = NoLater

\* the variables of update_publications_ts.py while another program is under study
IdleUpd ==
    /\ u_pubs = <<>>
    /\ u_i = 0
    /\ u_pc = "idle"
    /\ u_cur = NoUCur
    /\ u_title = None
    /\ u_out = <<>>
    /\ u_sleeps = 0
    /\ u_file = None
    /\ u_later = NoLater

\* int(p_full['bib']['pub_year']) raises: nothing catches it
UpdYearRaises ==
    /\ u_pc = "start" /\ u_i < Len(u_pubs)
    /\ ~ParseInt(u_pubs[u_i + 1].pub_year).ok
    /\ u_pc' = "aborted"
    /\ u_cur' = [NoUCur EXCEPT !.raised = "int"]
    /\ UNCHANGED <<u_later, u_pubs, u_i, u_title, u_out, u_sleeps, u_file, mainVars, keyVars, mergeVars, testVars, fnVars, rerunVars>>

\* a publication outside the two years is passed over (continue)
UpdSkipYear ==
    /\ u_pc = "start" /\ u_i < Len(u_pubs)
    /\ ParseInt(u_pubs[u_i + 1].pub_year).ok
    /\ ParseInt(u_pubs[u_i + 1].pub_year).val \notin allowed_years_ts
    /\ u_i' = u_i + 1
    /\ u_cur' = NoUCur
    /\ UNCHANGED <<u_later, u_pubs, u_pc, u_title, u_out, u_sleeps, u_file, mainVars, keyVars, mergeVars, testVars, fnVars, rerunVars>>

\* a publication of the two years: main goes on to ask Scholar for BibTeX
UpdStartPub ==
    /\ u_pc = "start" /\ u_i < Len(u_pubs)
    /\ ParseInt(u_pubs[u_i + 1].pub_year).ok
    /\ ParseInt(u_pubs[u_i + 1].pub_year).val \in allowed_years_ts
    /\ u_pc' = "bibtex"
    /\ u_cur' = NoUCur
    /\ UNCHANGED <<u_later, u_pubs, u_i, u_title, u_out, u_sleeps, u_file, mainVars, keyVars, mergeVars, testVars, fnVars, rerunVars>>

\* get_bibtex_with_fallback answers; the record is built and either passed
\* over, appended, or held until Crossref has been asked for the venue
UpdScholarBibtex ==
    /\ u_pc = "bibtex"
    /\ \E b \in UScholarBibs :
        LET p      == u_pubs[u_i + 1]
            fields == UFields(b, u_title)
            record == URecord(p, fields)
            doi    == FirstOf(extract_doi(IF record.paper = None THEN EmptyStr ELSE record.paper),
                              extract_doi(BibText(b)))
            c      == [NoUCur EXCEPT !.bibtex_str = b, !.record = record]
        IN  /\ u_title' = pick_title_ts(p)
            /\ IF \/ pick_title_ts(p) = EmptyStr
                  \/ ~ParseInt(record.year).ok
                  \/ ParseInt(record.year).val \notin allowed_years_ts
               THEN /\ u_i' = u_i + 1 /\ u_pc' = "start" /\ u_cur' = [c EXCEPT !.record = EmptyDict]
                    /\ UNCHANGED <<u_out, u_sleeps>>
               ELSE IF (record.venue = EmptyStr \/ Ellipsis \in Range(record.venue)) /\ doi # EmptyStr
                    THEN /\ u_pc' = "crossref" /\ u_cur' = [c EXCEPT !.doi = doi]
                         /\ UNCHANGED <<u_i, u_out, u_sleeps>>
                    ELSE UAppend(c, record)
    /\ UNCHANGED <<u_later, u_pubs, u_file, mainVars, keyVars, mergeVars, testVars, fnVars, rerunVars>>

\* crossref_lookup(doi): raise_for_status propagates out of main; a message
\* patches the venue
UpdCrossrefLookup ==
    /\ u_pc = "crossref"
    /\ \E a \in LookupAnswers(u_cur.doi) :
        IF a.kind = "exc"
        THEN /\ u_pc' = "aborted"
             /\ u_cur' = [u_cur EXCEPT !.raised = "crossref_lookup"]
             /\ UNCHANGED <<u_i, u_out, u_sleeps>>
        ELSE LET v == venue_from_crossref(a.m)
             IN  UAppend(u_cur, IF v # EmptyStr THEN [u_cur.record EXCEPT !.venue = v]
                                ELSE u_cur.record)
    /\ UNCHANGED <<u_later, u_pubs, u_title, u_file, mainVars, keyVars, mergeVars, testVars, fnVars, rerunVars>>

\* after the loop: the records are sorted, newest year first, and written
UpdWrite ==
    /\ u_pc = "start" /\ u_i = Len(u_pubs)
    /\ u_out' = SortByYear(u_out)
    /\ u_file' = [k \in 1..Len(u_out) |-> TsObject(SortByYear(u_out)[k])]
    /\ u_pc' = "done"
    /\ UNCHANGED <<u_later, u_pubs, u_i, u_cur, u_title, u_sleeps, mainVars, keyVars, mergeVars, testVars, fnVars, rerunVars>>

\* the text main writes to OUT_PATH for the objects of the array: the two
\* header lines, "export const dynamicPubs = [", one object literal per
\* record with bare keys and single-quoted strings, and "];"
GeneratedAt == <<"2026", "-11-05T06:13:15.767000", "Z">>

TsString(v) == <<"'">> \o v \o <<"'">>

TsObjectText(o) ==
    <<" ", "{", "\n">>
    \o <<" ", "title", ":", " ">> \o TsString(o.title) \o <<",", "\n">>
    \o <<" ", "authors", ":", " ">> \o TsString(o.authors) \o <<",", "\n">>
    \o <<" ", "venue", ":", " ">> \o TsString(o.venue) \o <<",", "\n">>
    \o <<" ", "year", ":", " ">> \o TsString(o.year) \o <<",", "\n">>
    \o <<" ", "links", ":", " ", "{", "\n">>
    \o <<" ", "paper", ":", " ">>
    \o (IF o.paper = None THEN <<"undefined">> ELSE TsString(o.paper)) \o <<"\n">>
    \o <<" ", "}", "\n">>
    \o <<" ", "}", ",", "\n">>

RECURSIVE TsObjectsText(_)
TsObjectsText(objs) ==
    IF objs = <<>> THEN <<>> ELSE TsObjectText(Head(objs)) \o TsObjectsText(Tail(objs))

FileText(objs) ==
    <<"// AUTO-GENERATED FILE. DO NOT EDIT.", "\n", "// Generated at: ">> \o GeneratedAt
    \o <<"\n", "\n", "export const", " ", "dynamicPubs", " ", "=", " ", "[", "\n">>
    \o TsObjectsText(objs)
    \o <<"]", ";", "\n">>

\* update_publications_ts.py read_generated_year: the year after
\* "Generated at:" as [ok, val], ok = FALSE for the None of a missing header
RECURSIVE read_generated_year(_)
read_generated_year(text) ==
    IF Len(text) < 2 THEN [ok |-> FALSE, val |-> 0]
    ELSE IF Head(text) = "// Generated at: "
         THEN ParseInt(<<text[2]>>)
         ELSE read_generated_year(Tail(text))

\* json.loads: a value is a string, null, an object or an array; anything
\* else raises (ok = FALSE).  A parse is [ok, val, rest].
JsonFail == [ok |-> FALSE, val |-> None, rest |-> <<>>]
JsonOk(v, rest) == [ok |-> TRUE, val |-> v, rest |-> rest]

\* the least member of a set of indexes, 0 for the empty set
Least(S) == IF S = {} THEN 0 ELSE CHOOSE i \in S : \A j \in S : i <= j

\* the backslashes directly before index i are an even number, so that the
\* character at i is not escaped
Unescaped(text, i) ==
    \/ i = 1
    \/ text[i - 1] # "\\"
    \/ (i - 1 - Least({j \in 0..(i - 1) : \A m \in (j + 1)..(i - 1) : text[m] = "\\"})) % 2 = 0

\* the index of the quote that closes the string opened before index k + 1,
\* 0 when there is none
StringEnd(text, k) ==
    Least({i \in (k + 1)..Len(text) : text[i] = "\"" /\ Unescaped(text, i)})

\* the characters of a JSON string's source: \n is the newline, any other
\* escaped character itself
RECURSIVE JsonUnescape(_)
JsonUnescape(s) ==
    IF \A i \in 1..Len(s) : s[i] # "\\" THEN s
    ELSE IF Head(s) = "\\"
         THEN <<IF s[2] = "n" THEN "\n" ELSE s[2]>> \o JsonUnescape(Tail(Tail(s)))
         ELSE <<Head(s)>> \o JsonUnescape(Tail(s))

JsonStringTo(s, end) ==
    IF end = 0 \/ \E i \in 1..(end - 1) : s[i] = "\n" THEN JsonFail
    ELSE JsonOk(JsonUnescape(SubSeq(s, 1, end - 1)), SubSeq(s, end + 1, Len(s)))

\* the rest of a string after its opening quote
JsonString(s) == JsonStringTo(s, StringEnd(s, 0))

RECURSIVE JsonValue(_)
RECURSIVE JsonMembers(_, _)
RECURSIVE JsonElements(_, _)

JsonAfterMember(acc, key, v) ==
    IF ~v.ok \/ lstrip(v.rest) = <<>> THEN JsonFail
    ELSE IF Head(lstrip(v.rest)) = "}" THEN JsonOk(Put(acc, key, v.val), Tail(lstrip(v.rest)))
    ELSE IF Head(lstrip(v.rest)) = ","
         THEN JsonMembers(lstrip(Tail(lstrip(v.rest))), Put(acc, key, v.val))
         ELSE JsonFail

\* "key": value, then "," and more members, or "}"
JsonMember(acc, k) ==
    IF ~k.ok THEN JsonFail
    ELSE IF lstrip(k.rest) = <<>> \/ Head(lstrip(k.rest)) # ":" THEN JsonFail
    ELSE JsonAfterMember(acc, Flatten(k.val), JsonValue(Tail(lstrip(k.rest))))

JsonMembers(s, acc) ==
    IF s = <<>> \/ Head(s) # "\"" THEN JsonFail
    ELSE JsonMember(acc, JsonString(Tail(s)))

JsonAfterElement(acc, v) ==
    IF ~v.ok \/ lstrip(v.rest) = <<>> THEN JsonFail
    ELSE IF Head(lstrip(v.rest)) = "]" THEN JsonOk(Append(acc, v.val), Tail(lstrip(v.rest)))
    ELSE IF Head(lstrip(v.rest)) = ","
         THEN JsonElements(Tail(lstrip(v.rest)), Append(acc, v.val))
         ELSE JsonFail

JsonElements(s, acc) == JsonAfterElement(acc, JsonValue(s))

JsonOpen(s, t) ==
    IF Head(s) = "{"
    THEN IF t # <<>> /\ Head(t) = "}" THEN JsonOk(EmptyDict, Tail(t)) ELSE JsonMembers(t, EmptyDict)
    ELSE IF t # <<>> /\ Head(t) = "]" THEN JsonOk(<<>>, Tail(t)) ELSE JsonElements(t, <<>>)

JsonStripped(s) ==
    IF s = <<>> THEN JsonFail
    ELSE IF Head(s) = "\"" THEN JsonString(Tail(s))
    ELSE IF Head(s) = "null" THEN JsonOk(None, Tail(s))
    ELSE IF Head(s) \in {"{", "["} THEN JsonOpen(s, lstrip(Tail(s)))
    ELSE JsonFail

JsonValue(s) == JsonStripped(lstrip(s))

JsonWhole(r) == IF r.ok /\ lstrip(r.rest) = <<>> THEN [ok |-> TRUE, val |-> r.val]
                ELSE [ok |-> FALSE, val |-> None]

json_loads(src) == JsonWhole(JsonValue(src))

\* str.find(tok, from): the first index at or after from, 0 when there is none
FindTok(text, tok, from) == Least({i \in from..Len(text) : text[i] = tok})

\* extract_exported_array, the loop from index k on with depth brackets
\* open: the index of the "]" that closes the bracket opened first, brackets
\* inside double-quoted strings not counted; 0 when there is none.  The scan
\* goes from one quote or bracket to the next, and from a quote to the quote
\* that closes it.
RECURSIVE MatchBracket(_, _, _)
MatchAt(text, n, depth) ==
    IF n = 0 THEN 0
    ELSE IF text[n] = "\""
         THEN IF StringEnd(text, n) = 0 THEN 0
              ELSE MatchBracket(text, StringEnd(text, n) + 1, depth)
    ELSE IF text[n] = "[" THEN MatchBracket(text, n + 1, depth + 1)
    ELSE IF depth = 1 THEN n
    ELSE MatchBracket(text, n + 1, depth - 1)

MatchBracket(text, k, depth) ==
    MatchAt(text, Least({i \in k..Len(text) : text[i] \in {"\"", "[", "]"}}), depth)

ArraySource(text, j, end) ==
    IF end = 0 THEN [ok |-> TRUE, val |-> <<>>] ELSE json_loads(strip(SubSeq(text, j, end)))

ExportedFrom(text, j) ==
    IF j = 0 THEN [ok |-> TRUE, val |-> <<>>]
    ELSE ArraySource(text, j, MatchBracket(text, j, 0))

\* update_publications_ts.py extract_exported_array: [] without an exported
\* array, else json.loads of the array's source; ok = FALSE when it raises
extract_exported_array(ts_text) ==
    IF FindTok(ts_text, "export const", 1) = 0 THEN [ok |-> TRUE, val |-> <<>>]
    ELSE ExportedFrom(ts_text, FindTok(ts_text, "[", FindTok(ts_text, "export const", 1)))

\* json.dumps(items, indent=2) for objects with title, authors, venue, year
\* and links.paper
JsonEscapeTok(c) ==
    CASE c = "\\" -> <<"\\", "\\">>
      [] c = "\"" -> <<"\\", "\"">>
      [] c = "\n" -> <<"\\", "n">>
      [] OTHER    -> <<c>>

RECURSIVE JsonEscape(_)
JsonEscape(v) == IF v = <<>> THEN <<>> ELSE JsonEscapeTok(Head(v)) \o JsonEscape(Tail(v))

JsonQuoted(v) == <<"\"">> \o JsonEscape(v) \o <<"\"">>

JsonObjectText(o) ==
    <<"{", "\n", " ", "\"", "title", "\"", ":", " ">> \o JsonQuoted(o.title)
    \o <<",", "\n", " ", "\"", "authors", "\"", ":", " ">> \o JsonQuoted(o.authors)
    \o <<",", "\n", " ", "\"", "venue", "\"", ":", " ">> \o JsonQuoted(o.venue)
    \o <<",", "\n", " ", "\"", "year", "\"", ":", " ">> \o JsonQuoted(o.year)
    \o <<",", "\n", " ", "\"", "links", "\"", ":", " ", "{", "\n", " ", "\"", "paper", "\"", ":", " ">>
    \o (IF o.links.paper = None THEN <<"null">> ELSE JsonQuoted(o.links.paper))
    \o <<"\n", " ", "}", "\n", " ", "}">>

RECURSIVE JsonObjectsText(_)
JsonObjectsText(objs) ==
    IF objs = <<>> THEN <<>>
    ELSE IF Len(objs) = 1 THEN JsonObjectText(Head(objs))
    ELSE JsonObjectText(Head(objs)) \o <<",", "\n", " ">> \o JsonObjectsText(Tail(objs))

json_dumps(objs) ==
    IF objs = <<>> THEN <<"[", "]">> ELSE <<"[", "\n", " ">> \o JsonObjectsText(objs) \o <<"\n", "]">>

\* the static file the migration writes
StaticText(merged) ==
    <<"// AUTO-GENERATED FILE. DO NOT EDIT.", "\n", "// Generated at: ">> \o GeneratedAt
    \o <<"\n", "\n", "export const", " ", "staticPubs", " ", "=", " ">>
    \o json_dumps(merged) \o <<" ", "as const", ";", "\n">>

\* the object json.loads gives for a record main wrote: the same fields, the
\* link under links.paper
AsJson(o) ==
    [title |-> o.title, authors |-> o.authors, venue |-> o.venue, year |-> o.year,
     links |-> [paper |-> o.paper]]

\* pub_key and dedupe_keep_order
pub_key(o) ==
    IF Get(o, "doi") # EmptyStr THEN o["doi"]
    ELSE IF "links" \in DOMAIN o /\ Get(o["links"], "paper") # EmptyStr THEN o["links"]["paper"]
    ELSE Get(o, "title") \o <<"__">> \o Get(o, "year")

RECURSIVE DedupeFrom(_, _)
DedupeFrom(items, seen) ==
    IF items = <<>> THEN <<>>
    ELSE IF pub_key(Head(items)) \in seen THEN DedupeFrom(Tail(items), seen)
    ELSE <<Head(items)>> \o DedupeFrom(Tail(items), seen \cup {pub_key(Head(items))})

dedupe_keep_order(items) == DedupeFrom(items, {})

\* migrate_two_years_ago_dynamic_to_static after the checks on the file's
\* year: the items of the dynamic file dated now_year - 2 go to the static
\* file, which is written as JSON; nothing is written when there are none
Migrated(now_year, dyn) ==
    IF ~dyn.ok THEN [now_year |-> now_year, outcome |-> "raised", static |-> None]
    ELSE [now_year |-> now_year, outcome |-> "returned",
          static |-> IF SelectSeq(dyn.val, LAMBDA o : ParseInt(Get(o, "year")).ok
                                           /\ ParseInt(Get(o, "year")).val = now_year - 2) = <<>>
                     THEN None
                     ELSE StaticText(dedupe_keep_order(
                              SelectSeq(dyn.val, LAMBDA o : ParseInt(Get(o, "year")).ok
                                           /\ ParseInt(Get(o, "year")).val = now_year - 2)))]

\* the years a later run of main may be started in
LaterYears == {ThisYear, ThisYear + 1, ThisYear + 2}

\* a later run of main up to the loop: the migration reads the file the
\* earlier run wrote; with a file of the run's own year it returns at once
UpdLaterRun ==
    /\ u_pc = "done" /\ u_later = NoLater
    /\ \E now_year \in LaterYears :
        u_later' = IF ~read_generated_year(FileText(u_file)).ok
                      \/ read_generated_year(FileText(u_file)).val >= now_year
                   THEN [now_year |-> now_year, outcome |-> "returned", static |-> None]
                   ELSE Migrated(now_year, extract_exported_array(FileText(u_file)))
    /\ UNCHANGED <<u_pubs, u_i, u_pc, u_cur, u_title, u_out, u_sleeps, u_file, mainVars, keyVars, mergeVars, testVars, fnVars, rerunVars>>

\* a later run started in a calendar year after the file's generation year
LaterYearRun == u_later # NoLater /\ u_later.now_year > read_generated_year(FileText(u_file)).val

\* the static file written from objects is read back as those objects
JsonArrayReadBack ==
    u_pc = "done" =>
        extract_exported_array(StaticText([k \in 1..Len(u_file) |-> AsJson(u_file[k])]))
            = [ok |-> TRUE, val |-> [k \in 1..Len(u_file) |-> AsJson(u_file[k])]]

\* C30: the file main wrote is read back by the migration of a later run:
\* extract_exported_array of the written text returns the written records
\* without raising, and a run started in a later calendar year completes
\* the migration and goes on to the seeds
C30_DynamicFileRoundTrip ==
    LaterYearRun =>
        /\ extract_exported_array(FileText(u_file)).ok
        /\ extract_exported_array(FileText(u_file)).val
               = [k \in 1..Len(u_file) |-> AsJson(u_file[k])]
        /\ u_later.outcome = "returned"

\* the records of one integer year, in the order of the list
OfYear(rs, y) == SelectSeq(rs, LAMBDA r : year_key(r) = y)

\* after is before in another order: newest integer year first, the records
\* of one year in the order they had, none added, dropped or duplicated
NewestFirstStable(before, after) ==
    /\ Len(after) = Len(before)
    /\ \A i \in 1..(Len(after) - 1) : year_key(after[i]) >= year_key(after[i + 1])
    /\ \A i \in 1..Len(before) :
          OfYear(after, year_key(before[i])) = OfYear(before, year_key(before[i]))

\* C27: the sequence update_publications_ts.main emits is the collected
\* records ordered by integer year, newest first, records of equal year in
\* insertion order, and a permutation of the collected records.
C27_SortNewestFirstStable ==
    [][(u_pc = "start" /\ u_pc' = "done")
          => /\ NewestFirstStable(u_out, u_out')
             /\ u_file' = [k \in 1..Len(u_out') |-> TsObject(u_out'[k])]]_vars

\* C27 witness: of three publications collected in the order 2025, 2026, 2025
\* the one of 2026 was emitted first and the two of 2025 after it in the
\* order they were collected.
C27_Witness ==
    /\ u_pc = "done"
    /\ u_pubs = <<UPubDoi, UPubPlain, UPubCut>>
    /\ Len(u_out) = 3 /\ Len(u_file) = 3
    /\ year_key(u_out[1]) = 2026 /\ year_key(u_out[2]) = 2025 /\ year_key(u_out[3]) = 2025
    /\ u_out[2].title = TitleNear /\ u_out[3].title = TitleOff
    /\ u_file[1].year = <<"2026">>

\* the publication the record in u_cur was built for
UCurPub == IF u_pc \in {"crossref", "aborted"} THEN u_pubs[u_i + 1] ELSE u_pubs[u_i]

\* the record the publication's own data and the BibTeX it got determine
UOwnRecord == URecord(UCurPub, bibtex_to_fields(u_cur.bibtex_str))

\* C29: the record update_publications_ts.main builds for a publication
\* depends only on that publication's data and answers, not on its position:
\* the parsed BibTeX fields, also when they hold no venue key, give the
\* record's title, authors, year and url for every publication, the first
\* one processed included.
C29_RecordIndependentOfPosition ==
    u_cur.record # EmptyDict =>
        /\ u_cur.record.title = UOwnRecord.title
        /\ u_cur.record.authors = UOwnRecord.authors
        /\ u_cur.record.year = UOwnRecord.year
        /\ u_cur.record.paper = UOwnRecord.paper

\* C8: no adapter's exception aborts the run: whatever requests fail, main
\* reaches the end of the publications and writes the output.
C8_NoAdapterAbortsRun ==
    ~(u_pc = "aborted" /\ u_cur.raised = "crossref_lookup" /\ u_file = None)

-----------------------------------------------------------------------------
(* Properties of tryout.py main *)

\* C4: in every run of tryout.main the ID values of the records of the output
\* collection are pairwise distinct.
C4_CitekeysDistinct ==
    \A i, j \in 1..Len(entries) :
        i # j => Get(entries[i], "ID") # Get(entries[j], "ID")

\* C6: once a source's record has been accepted for a seed, no further source
\* is queried for that seed and the accepted record is not replaced.
C6_ShortCircuit ==
    [][(cur.seeded /\ ~cur.done /\ cur.accepted # "")
          => (cur'.calls = cur.calls /\ cur'.chosen_entry = cur.chosen_entry)]_vars

\* the lookup by the seed's DOI returned a message
DoiLookupReturned == cur.seeded /\ cur.doi_answer.kind = "msg"

\* main went on to crossref_bibtex_transform(doi) with the seed's DOI: the
\* message of the lookup passed
DoiRecordTaken ==
    \/ pc = "cr_transform"
    \/ \E i \in 1..(Len(cur.calls) - 1) :
        /\ cur.calls[i] = "crossref_doi"
        /\ cur.calls[i + 1] = "crossref_transform"
        /\ \A j \in 1..i : cur.calls[j] # "crossref_search"

SearchResultUsed ==
    /\ cur.done /\ cur.accepted = "arxiv"
    /\ \E i \in 1..Len(cur.calls) : cur.calls[i] = "arxiv_search"

\* similarity of the seed's title and an arXiv title, as a rational
ArxivTitleScore(t) == seq_ratio(normalize_title(cur.title), normalize_title(normalize_ws(unescape(t))))

\* C12: whenever the metadata of a result of the arXiv title search is used
\* for a seed's record, the similarity of the normalized titles is at least
\* 0.88 and no returned result is more similar to the seed's title.
C12_ArxivSearchClearsThreshold ==
    SearchResultUsed =>
        /\ 100 * ArxivTitleScore(cur.best.matched_title).num
              >= 88 * ArxivTitleScore(cur.best.matched_title).den
        /\ \A i \in 1..Len(cur.arxiv_answer.results) :
              ArxivTitleScore(cur.arxiv_answer.results[i].title).num
                  * ArxivTitleScore(cur.best.matched_title).den
              <= ArxivTitleScore(cur.best.matched_title).num
                  * ArxivTitleScore(cur.arxiv_answer.results[i].title).den

\* a seed with no DOI, no arXiv identifier and no venue, for which the arXiv
\* title search returned an entry with the seed's title and an identifier
TitleSearchMatched ==
    /\ cur.done /\ cur.doi = EmptyStr /\ cur.venue = EmptyStr
    /\ \E i \in 1..Len(cur.calls) : cur.calls[i] = "arxiv_search"
    /\ cur.arxiv_answer.kind = "results"
    /\ cur.best.arxiv_id # EmptyStr
    /\ cur.best.matched_title = cur.title

\* C14: the record of such a seed has entry type misc, an eprint field
\* holding the arXiv identifier and archiveprefix "arXiv".
C14_ArxivSearchRecord ==
    TitleSearchMatched =>
        /\ Get(entries[Len(entries)], "ENTRYTYPE") = <<"misc">>
        /\ Get(entries[Len(entries)], "eprint") = cur.best.arxiv_id
        /\ Get(entries[Len(entries)], "archiveprefix") = <<"arXiv">>

\* the entry types of a canonical record
EntryTypes == {<<"article">>, <<"inproceedings">>, <<"incollection">>, <<"book">>, <<"misc">>}

\* C16: every record of the output collection has an ENTRYTYPE and an ID, and
\* its entry type is one of article, inproceedings, incollection, book, misc,
\* whatever entry type the accepted source reported.
C16_EntryTypeOneOfFive ==
    \A i \in 1..Len(entries) :
        /\ Get(entries[i], "ENTRYTYPE") # EmptyStr
        /\ Get(entries[i], "ID") # EmptyStr
        /\ entries[i]["ENTRYTYPE"] \in EntryTypes

\* C17: one rate-limit delay per seed, whatever became of the seed: when the
\* loop of tryout.main is about to start on a seed, it has slept once for
\* each seed before it, skipped seeds included.
C17_OneDelayPerSeed ==
    (pc = "start" /\ idx < Len(pubs)) => sleeps = idx

\* C18: a run of tryout.main on an empty seed sequence ends without writing
\* the output file.
C18_EmptyRunWritesNothing ==
    pubs = <<>> => outfile = None

\* the requests made for the seed so far to the sources other than the
\* profile's own BibTeX export
SourceCalls == SelectSeq(cur.calls, LAMBDA x : x # "scholar")

\* C22: for every seed with a DOI the registry lookup by that DOI is the first
\* source queried, before any publisher export, preprint or title-search
\* request, and when it returns a record that record becomes the canonical one.
C22_RegistryByDoiFirst ==
    (cur.seeded /\ cur.doi # EmptyStr) =>
        /\ SourceCalls # <<>> => SourceCalls[1] = "crossref_doi"
        /\ (cur.done /\ DoiLookupReturned /\ cur.doi_answer.m # CrNone)
              => cur.accepted = "crossref_doi"

\* the number of requests made for the seed so far to a source
CallCount(source) == Len(SelectSeq(cur.calls, LAMBDA x : x = source))

\* the publisher's export is requested at most once for the seed
OneExportRequest == CallCount("acm") <= 1 /\ CallCount("springer") <= 1

\* the registry is asked at most once for the record and at most once for the
\* BibTeX of one DOI: a second request is for another DOI than the seed's
OneRegistryRequestPerDoi ==
    /\ CallCount("crossref_doi") <= 2 /\ CallCount("crossref_transform") <= 2
    /\ CallCount("crossref_doi") = 2 => cur.best_doi # cur.doi
    /\ CallCount("crossref_transform") = 2 => cur.best_doi # cur.doi

\* the title searches and the preprint lookup are requested at most once
OneSearchRequest ==
    /\ CallCount("crossref_search") <= 1
    /\ CallCount("arxiv_search") <= 1
    /\ CallCount("arxiv") <= 1

\* C23: while one seed is processed, each source endpoint (registry lookup of
\* a DOI, registry BibTeX transform of a DOI, registry title search, publisher
\* export, preprint API) is requested at most once.
C23_OneAttemptPerEndpoint ==
    cur.seeded => (OneExportRequest /\ OneRegistryRequestPerDoi /\ OneSearchRequest)

\* a record made of the seed's own title, authors, year, venue and link only
SeedOnlyRecord(e) ==
    /\ DOMAIN e \subseteq {"ENTRYTYPE", "ID", "title", "author", "year", "howpublished", "url"}
    /\ {"ENTRYTYPE", "ID", "title", "author", "year"} \subseteq DOMAIN e
    /\ e["ENTRYTYPE"] = <<"misc">>
    /\ e["title"] = cur.title /\ e["year"] = cur.year
    /\ e["author"] = normalize_authors_to_bibtex(cur.authors)
    /\ "url" \in DOMAIN e => e["url"] = cur.link

\* the seed was taken for a preprint: only the preprint API is asked
OnArxivBranch == \E i \in 1..Len(cur.calls) : cur.calls[i] \in {"arxiv", "arxiv_search"}

\* a source delivered a record for the seed: a BibTeX entry of the profile,
\* of a publisher or of the registry
SourceDelivered ==
    \/ cur.scholar_bibtex.kind = "bib"
    \/ cur.crossref_bib.kind = "bib"
    \/ cur.accepted \in {"acm", "springer"}

\* the seeds the loop has been through that passed the title and year filters
SeedsTaken ==
    {i \in 1..idx : /\ pick_title(pubs[i]) # EmptyStr
                    /\ ParseInt(pick_year(pubs[i])).ok
                    /\ ParseInt(pick_year(pubs[i])).val \in allowed_years}

\* one record in the output collection for every such seed
OneRecordPerSeedTaken == Len(entries) = Cardinality(SeedsTaken)

\* C24: for a seed that passed the title and year filters the record made of
\* the seed alone (entry type misc) is emitted exactly when no source delivered
\* a record for it (for a preprint seed: whenever the preprint API failed),
\* and one record is appended for every such seed.
C24_MinimalRecordLastResort ==
    /\ OneRecordPerSeedTaken
    /\ cur.done =>
          IF OnArxivBranch
          THEN cur.accepted # "arxiv" => SeedOnlyRecord(entries[Len(entries)])
          ELSE SeedOnlyRecord(entries[Len(entries)]) <=> ~SourceDelivered

\* the publications of the profile with a title and an integer year inside
\* the window
SeedsInWindow ==
    {i \in 1..Len(pubs) : /\ pick_title(pubs[i]) # EmptyStr
                          /\ ParseInt(pick_year(pubs[i])).ok
                          /\ ParseInt(pick_year(pubs[i])).val \in allowed_years}

\* C28: in tryout.main every publication with a non-empty title and an
\* integer year inside the window yields exactly one record of the output,
\* whatever publications precede it in the profile.
C28_EverySeedInWindowYieldsRecord ==
    pc = "done" => Len(outfile) = Cardinality(SeedsInWindow)

\* C10: for every seed with a DOI for which the registry returned a record,
\* the record appended for the seed has doi equal to the seed's DOI and url
\* equal to "https://doi.org/" followed by that DOI.
C10_DoiAndUrlFromSeedDoi ==
    (cur.done /\ cur.doi # EmptyStr /\ DoiLookupReturned /\ cur.doi_answer.m # CrNone)
        => /\ Get(entries[Len(entries)], "doi") = cur.doi
           /\ Get(entries[Len(entries)], "url") = <<"https://doi.org/">> \o cur.doi

-----------------------------------------------------------------------------
(* One call of a pure function of tryout.py on arguments drawn from small sets *)

\* the arguments of crossref_search_best: the seed's title, year and venue and
\* the items the registry answers with
FnTitles == {TitleA, <<".">>}
FnYears  == {EmptyStr, <<"2025">>}
FnVenues == {EmptyStr, <<"V">>, <<"V", " ", "W", " ", "X">>}
MsgNoYear(doi) == [MsgOk(doi) EXCEPT !.year = EmptyStr]
FnItems ==
    {MsgOk(DoiOther), MsgNear(DoiAcm), MsgTitleOff(DoiOther), MsgYearOff(DoiOther),
     MsgVenueOff(DoiOther), MsgNoYear(DoiOther)}
FnItemLists == {<<>>} \cup {<<a>> : a \in FnItems} \cup {<<a, b>> : a, b \in FnItems}
SearchArgs ==
    [title : FnTitles, year : FnYears, venue : FnVenues, items : FnItemLists]

\* the arguments of token_set_ratio: strings that differ in word order, in
\* letter case, in punctuation, in blanks, or share nothing
FnStrings ==
    {EmptyStr, <<" ">>, <<"a", " ", "b">>, <<"b", " ", "a">>, <<"A", " ", "b">>,
     <<"a", ",", " ", "b">>, <<"a", " ", " ", "b", " ", "a">>, <<"b", " ", "d">>,
     <<"d">>, <<"V", " ", "W", " ", "X">>}
RatioArgs == [a : FnStrings, b : FnStrings]

\* the arguments of the title score: a seed's title and a candidate's, some
\* of them empty or empty once normalize_title dropped the punctuation
FnScoreTitles == {EmptyStr, <<".">>, <<" ">>, <<".", " ", ",">>, TitleA, TitleA \o <<".">>, TitleNear, TitleOff}
ScoreArgs == [a : FnScoreTitles, b : FnScoreTitles]

\* what step 3 of main works on: the text of the transform endpoint, with
\* or without an abstract of its own, and the abstract of the registry's
\* JSON message
AbstractOwn == <<"o", "w", "n">>
FnTransformBibs ==
    {EmptyBib, [kind |-> "garbage"],
     [kind |-> "bib", e |-> CrossrefEntry(DoiOther)],
     [kind |-> "bib", e |-> CrossrefEntryNoDoi],
     [kind |-> "bib", e |-> Put(CrossrefEntry(DoiOther), "abstract", AbstractOwn)],
     [kind |-> "bib", e |-> Put(CrossrefEntryNoDoi, "abstract", <<" ">>)]}
FnAbstracts == {EmptyStr, <<"<", "p", ">", "s">>, AbstractOwn, <<"<", "p", ">">>}
Step3Args ==
    [bib : FnTransformBibs, abstract : FnAbstracts, venue : {EmptyStr, <<"V">>},
     link : {EmptyStr, <<"http://u">>}]

InitFn ==
    /\ f_op \in {"crossref_search_best", "token_set_ratio", "seq_ratio", "step3"}
    /\ f_in \in (CASE f_op = "crossref_search_best" -> SearchArgs
                   [] f_op = "token_set_ratio" -> RatioArgs
                   [] f_op = "seq_ratio" -> ScoreArgs
                   [] OTHER -> Step3Args)
    /\ f_pc = "call"
    /\ f_out = None

\* the variables of the call while another operation is under study
IdleFn ==
    /\ f_op = "idle"
    /\ f_in = None
    /\ f_pc = "idle"
    /\ f_out = None

\* best = crossref_search_best(title, year, venue) once the request returned
CallSearchBest ==
    /\ f_op = "crossref_search_best" /\ f_pc = "call"
    /\ f_out' = crossref_search_best(f_in.title, f_in.year, f_in.venue, f_in.items)
    /\ f_pc' = "done"
    /\ UNCHANGED <<f_op, f_in, mainVars, keyVars, mergeVars, testVars, updVars, rerunVars>>

\* token_set_ratio(a, b)
CallTokenSetRatio ==
    /\ f_op = "token_set_ratio" /\ f_pc = "call"
    /\ f_out' = token_set_ratio(f_in.a, f_in.b)
    /\ f_pc' = "done"
    /\ UNCHANGED <<f_op, f_in, mainVars, keyVars, mergeVars, testVars, updVars, rerunVars>>

\* seq_ratio(normalize_title(title), normalize_title(cr_title))
CallSeqRatio ==
    /\ f_op = "seq_ratio" /\ f_pc = "call"
    /\ f_out' = seq_ratio(normalize_title(f_in.a), normalize_title(f_in.b))
    /\ f_pc' = "done"
    /\ UNCHANGED <<f_op, f_in, mainVars, keyVars, mergeVars, testVars, updVars, rerunVars>>

\* main, step 3, for a seed "Deep maps" of 2025 with nothing chosen before
CallStep3 ==
    /\ f_op = "step3" /\ f_pc = "call"
    /\ f_out' = Step3([NewCur EXCEPT !.title = TitleA, !.year = <<"2025">>,
                                     !.venue = f_in.venue, !.link = f_in.link,
                                     !.crossref_bib = f_in.bib],
                      strip_html_tags(f_in.abstract))
    /\ f_pc' = "done"
    /\ UNCHANGED <<f_op, f_in, mainVars, keyVars, mergeVars, testVars, updVars, rerunVars>>

\* the three rules of the validator for an item, written from the thresholds
ItemTitleOk(title, it) ==
    100 * seq_ratio(normalize_title(title), normalize_title(it.title)).num
        >= 88 * seq_ratio(normalize_title(title), normalize_title(it.title)).den
ItemYearOk(year, it) == year # EmptyStr => (it.year # EmptyStr /\ it.year = year)
ItemVenue(it) == IF it.container # EmptyStr THEN it.container ELSE it.event
ItemVenueOk(venue, it) ==
    venue # EmptyStr =>
        100 * token_set_ratio(venue, ItemVenue(it)).num
            >= 45 * token_set_ratio(venue, ItemVenue(it)).den

SearchReturned == f_op = "crossref_search_best" /\ f_pc = "done"

\* C11: an item returned by crossref_search_best(title, year, venue) is one of
\* the items of the answer and passes the three rules: title similarity at
\* least 0.88; with a seed year, the item has a year and it is equal; with a
\* seed venue, venue similarity at least 0.45; and with an empty seed venue an
\* item that passes the title and year rules is never turned down.
C11_SearchBestValidated ==
    SearchReturned =>
        /\ f_out # CrNone =>
              /\ \E i \in 1..Len(f_in.items) : f_in.items[i] = f_out
              /\ ItemTitleOk(f_in.title, f_out)
              /\ ItemYearOk(f_in.year, f_out)
              /\ ItemVenueOk(f_in.venue, f_out)
        /\ (/\ f_in.venue = EmptyStr
            /\ normalize_title(f_in.title) # EmptyStr
            /\ \E i \in 1..Len(f_in.items) :
                  ItemTitleOk(f_in.title, f_in.items[i]) /\ ItemYearOk(f_in.year, f_in.items[i]))
               => f_out # CrNone

\* C11 witness: with a seed year and venue, the search was answered with an
\* item without a year followed by a matching one, and returned the second.
C11_Witness ==
    /\ SearchReturned
    /\ f_in.year # EmptyStr /\ f_in.venue # EmptyStr
    /\ f_in.items = <<MsgNoYear(DoiOther), MsgOk(DoiOther)>>
    /\ f_out = MsgOk(DoiOther)

\* the words of a string with letter case and punctuation disregarded
PlainWords(s) ==
    Range(Split(lower(SelectSeq(s, LAMBDA c : c \notin Punctuation))))

\* the whitespace-split tokens of a string, letter case disregarded
TokenSet(s) == Range(Split(lower(s)))

RatioReturned == f_op = "token_set_ratio" /\ f_pc = "done"

\* the ratio is |A & B| / |A | B| of the two token sets (0.0 when the union
\* is empty), lies in [0,1] and does not depend on the order of the arguments
RatioIsJaccard ==
    RatioReturned =>
        LET A == TokenSet(f_in.a)
            B == TokenSet(f_in.b)
        IN  /\ f_out.den > 0 /\ 0 <= f_out.num /\ f_out.num <= f_out.den
            /\ f_out.num * Cardinality(A \cup B) = Cardinality(A \cap B) * f_out.den
            /\ f_out = token_set_ratio(f_in.b, f_in.a)

\* 0.0 for two strings that share no token
RatioZeroWhenDisjoint ==
    (RatioReturned /\ TokenSet(f_in.a) \cap TokenSet(f_in.b) = {}) => f_out.num = 0

\* 1.0 for two strings with the same words once letter case and punctuation
\* are disregarded
RatioOneModuloPunctuation ==
    (RatioReturned /\ PlainWords(f_in.a) # {} /\ PlainWords(f_in.a) = PlainWords(f_in.b))
        => f_out.num = f_out.den

\* 1.0 for two strings with the same tokens once letter case is disregarded
RatioOneModuloCase ==
    (RatioReturned /\ TokenSet(f_in.a) # {} /\ TokenSet(f_in.a) = TokenSet(f_in.b))
        => f_out.num = f_out.den

\* C20: token_set_ratio(a, b) is the size of the intersection over the size
\* of the union of the two token sets, lies in [0,1] and is symmetric; it is
\* 1.0 for two strings that differ only in word order, letter case or
\* punctuation, and 0.0 for two strings that share no token.
C20_TokenSetRatio ==
    /\ RatioIsJaccard
    /\ RatioZeroWhenDisjoint
    /\ RatioOneModuloPunctuation

ScoreReturned == f_op = "seq_ratio" /\ f_pc = "done"

\* a side of the call is empty (for a title: once normalised)
EmptySide ==
    \/ RatioReturned /\ (normalize_ws(f_in.a) = EmptyStr \/ normalize_ws(f_in.b) = EmptyStr)
    \/ ScoreReturned /\ (normalize_title(f_in.a) = EmptyStr \/ normalize_title(f_in.b) = EmptyStr)

\* token_set_ratio alone: 0.0 when a side is empty
TokenRatioZeroOnEmpty == (RatioReturned /\ EmptySide) => f_out.num = 0

\* C21: in both similarity modes an input that is empty on either side, also
\* when both sides are empty and when a title is empty once normalised, gives
\* the score 0.0, so that such a title never reaches the threshold 0.88.
C21_EmptySideScoresZero ==
    EmptySide => (f_out.num = 0 /\ ~AtLeastPct(f_out, TitlePct))

\* step 3 built the record from a BibTeX entry of the registry
Step3Built == f_op = "step3" /\ f_pc = "done" /\ f_in.bib.kind = "bib"

\* the abstract of the registry's BibTeX entry, "" when it has none
OwnAbstract == strip(Get(f_in.bib.e, "abstract"))

\* a record without abstract of its own gets the one of the JSON message
AbstractAddedWhenMissing ==
    (Step3Built /\ OwnAbstract = EmptyStr /\ strip_html_tags(f_in.abstract) # EmptyStr)
        => Get(f_out, "abstract") = strip_html_tags(f_in.abstract)

\* C25: when the BibTeX entry accepted from the registry has a non-empty
\* abstract, the abstract of the registry's JSON message does not replace it;
\* the message's abstract is added only when the entry has none.
C25_AbstractPatchKeepsOwn ==
    /\ (Step3Built /\ OwnAbstract # EmptyStr) => Get(f_out, "abstract") = OwnAbstract
    /\ AbstractAddedWhenMissing

-----------------------------------------------------------------------------
(* A program run a second time on the same input with the same answers *)

\* the profiles tryout.main is run twice on
TwicePubLists ==
    {<<>>, <<PubAcm>>, <<PubSpringer>>, <<PubOther>>, <<PubPlain>>,
     <<PubArxivId>>, <<PubArxiv>>, <<PubArxivLink>>,
     <<PubArxivId, PubArxiv>>, <<PubArxivId, PubArxivId>>,
     <<PubNoTitle, PubPlain>>, <<PubArxiv, PubOld>>}

\* the first of two runs of tryout.main or of test.py's main
InitTwice ==
    /\ run = 1
    /\ run1 = None
    /\ answers = <<>>
    /\ \/ InitMainOn(TwicePubLists) /\ IdleTest
       \/ InitTest /\ IdleMain

\* the run of tryout.main is over and the script is started again: the
\* profile, the file on disk and whatever the run left behind are as they are
RunAgain ==
    /\ run = 1 /\ pc \in {"done", "aborted"}
    /\ run' = 2
    /\ run1' = [entries |-> entries, file |-> outfile, pc |-> pc, answers |-> answers]
    /\ answers' = <<>>
    /\ pc' = "begin"
    /\ UNCHANGED <<pubs, idx, cur, entries, sleeps, outfile, keyVars, mergeVars, testVars, updVars, fnVars>>

\* the same for test.py's main
TestRunAgain ==
    /\ run = 1 /\ t_pc \in {"done", "exit"}
    /\ run' = 2
    /\ run1' = [entries |-> t_entries, file |-> t_file, pc |-> t_pc, answers |-> answers]
    /\ answers' = <<>>
    /\ t_pc' = "start"
    /\ UNCHANGED <<t_records, t_i, t_entries, t_used, t_sleeps, t_log, t_file, mainVars, keyVars, mergeVars, updVars, fnVars>>

\* the second run is over
SecondRunOver ==
    /\ run = 2
    /\ pc \in {"done", "aborted"} \/ t_pc \in {"done", "exit"}

\* what the run that is over collected, wrote and how it ended
RunResult ==
    IF pc = "idle"
    THEN [entries |-> t_entries, file |-> t_file, pc |-> t_pc, answers |-> answers]
    ELSE [entries |-> entries, file |-> outfile, pc |-> pc, answers |-> answers]

\* C19: a second run of tryout.main or of test.py's main on the same seed
\* sequence, with the same answer of every source to every request, collects
\* the same records in the same order, field for field, writes the same file
\* and ends the same way as the first run.
C19_SecondRunSameRecords ==
    SecondRunOver => RunResult = run1

\* a second run of tryout.main is over in which at least two records were
\* collected from the answers of the sources and written
C19_Witness ==
    /\ SecondRunOver
    /\ pc = "done"
    /\ Len(RunResult.entries) >= 2
    /\ Len(answers) >= 2
    /\ RunResult.file = RunResult.entries

-----------------------------------------------------------------------------
(* Specifications *)

NextKey == UniqueIdCall
InitSpecKey == IdleRerun /\ IdleFn /\ InitKey /\ IdleMerge /\ IdleMain /\ IdleTest /\ IdleUpd
SpecKey == InitSpecKey /\ [][NextKey]_vars

NextMerge == MergePatchCall \/ BuildCall
InitSpecMerge == IdleRerun /\ IdleFn /\ IdleKey /\ IdleMain /\ IdleTest /\ IdleUpd /\ (InitMergePatch \/ InitBuild)
SpecMerge == InitSpecMerge /\ [][NextMerge]_vars


\* tryout.py main, one step per request to a source
Next ==
    \/ BeginMain
    \/ SkipSeed
    \/ StopAtOldSeed
    \/ StartSeed
    \/ ScholarBibtex
    \/ ArxivById
    \/ ArxivSearch
    \/ ArxivByBestId
    \/ AcmExport
    \/ SpringerExport
    \/ SpringerExportQuoted
    \/ CrossrefByDoi
    \/ CrossrefTransformDoi
    \/ CrossrefSearch
    \/ CrossrefTransformBest
    \/ CrossrefLookupBest
    \/ WriteOutput
    \/ WriteRaises

InitSpec == IdleRerun /\ IdleFn /\ InitMain /\ IdleKey /\ IdleMerge /\ IdleTest /\ IdleUpd

Spec == InitSpec /\ [][Next]_vars

\* test.py main, one step per record
NextTest ==
    \/ TestExitEmpty
    \/ TestBegin
    \/ TestByDoi
    \/ TestByArxiv
    \/ TestByTitle
    \/ TestNoSource
    \/ TestWrite

InitSpecTest == IdleRerun /\ IdleFn /\ InitTest /\ IdleMain /\ IdleKey /\ IdleMerge /\ IdleUpd

SpecTest == InitSpecTest /\ [][NextTest]_vars

\* update_publications_ts.py main, one step per request
NextUpd ==
    \/ UpdYearRaises
    \/ UpdSkipYear
    \/ UpdStartPub
    \/ UpdScholarBibtex
    \/ UpdCrossrefLookup
    \/ UpdWrite
    \/ UpdLaterRun

InitSpecUpd == IdleRerun /\ IdleFn /\ InitUpd /\ IdleMain /\ IdleKey /\ IdleMerge /\ IdleTest

SpecUpd == InitSpecUpd /\ [][NextUpd]_vars

\* a program run twice
NextTwice == Next \/ NextTest \/ RunAgain \/ TestRunAgain
InitSpecTwice == InitTwice /\ IdleFn /\ IdleKey /\ IdleMerge /\ IdleUpd
SpecTwice == InitSpecTwice /\ [][NextTwice]_vars

\* one call of a pure function
NextFn == CallSearchBest \/ CallTokenSetRatio \/ CallSeqRatio \/ CallStep3
InitSpecFn == IdleRerun /\ InitFn /\ IdleMain /\ IdleKey /\ IdleMerge /\ IdleTest /\ IdleUpd
SpecFn == InitSpecFn /\ [][NextFn]_vars

====
